---- MODULE Spec2Model ----
(***************************************************************************)
(* Model of the ColonySync tooling scripts: their version identifiers,     *)
(* the Steam path cache, the NuGet client and the command-line actions.    *)
(*                                                                         *)
(* SemanticVersion (scripts/cli/utils/versioning.py): parse_version        *)
(* matches a string against SEMVER_REGEX and builds a version; __eq__,     *)
(* __lt__ and _compare_pre_release compare two versions, __str__ renders   *)
(* one (RenderSpec).                                                       *)
(*                                                                         *)
(* Version (scripts/common/version.py): parse, to_string, __str__, __eq__  *)
(* and __lt__ of the four-component version (VersionSpec); comparisons    *)
(* between the two classes (MixedSpec).                                    *)
(*                                                                         *)
(* Version (scripts/version.py): the three-part version and its increment  *)
(* (IncrementSpec).                                                        *)
(*                                                                         *)
(* Environment.create_instance (scripts/environment.py): the Steam install *)
(* path and its cache file (EnvironmentSpec).                              *)
(*                                                                         *)
(* NuGetClient (scripts/cli/nuget/client.py): query_package of concurrent  *)
(* tasks under the catalog lock (NuGetSpec, NuGetFairSpec).                *)
(*                                                                         *)
(* consolidate_assemblies, deploy_mod and the activation step of           *)
(* ensure_active.py on a file system (ScriptsSpec).                        *)
(*                                                                         *)
(* A Python string is a sequence of one-character strings.  A Python call  *)
(* that can raise returns a record whose field "raised" names the          *)
(* exception ("none" when the call returned).  An Optional[str] is a       *)
(* record [some, str]; None is the record with some = FALSE.               *)
(***************************************************************************)
EXTENDS Integers, Sequences, FiniteSets, TLC

VARIABLES version_str, version, result, pc, fs, client, tasks

vars == <<version_str, version, result, pc, fs, client, tasks>>

----------------------------------------------------------------------------
(* Characters and strings                                                  *)

Digits == {"0", "1", "2", "3", "4", "5", "6", "7", "8", "9"}

Letters == {"a", "b", "v", "x", "y"}

\* \w of the re module, restricted to the characters of the model
WordChars == Digits \cup Letters \cup {"_"}

\* the class [\w.-] of the pre_release and build_metadata groups
IdentChars == WordChars \cup {".", "-"}

\* ord(c)
Ord ==
  ("\n" :> 10) @@ (" " :> 32) @@ ("+" :> 43) @@ ("-" :> 45) @@ ("." :> 46) @@
  ("0" :> 48) @@ ("1" :> 49) @@ ("2" :> 50) @@ ("3" :> 51) @@ ("4" :> 52) @@
  ("5" :> 53) @@ ("6" :> 54) @@ ("7" :> 55) @@ ("8" :> 56) @@ ("9" :> 57) @@
  ("_" :> 95) @@ ("a" :> 97) @@ ("b" :> 98) @@ ("v" :> 118) @@ ("x" :> 120) @@
  ("y" :> 121)

None == [some |-> FALSE, str |-> <<>>]

Some(s) == [some |-> TRUE, str |-> s]

\* str.isdigit(): non-empty and every character a digit
IsDigit(s) == Len(s) > 0 /\ \A i \in 1..Len(s) : s[i] \in Digits

\* int(s) of a string of decimal digits
RECURSIVE StrToInt(_)
StrToInt(s) ==
  IF s = <<>> THEN 0
  ELSE StrToInt(SubSeq(s, 1, Len(s) - 1)) * 10 + (Ord[s[Len(s)]] - Ord["0"])

\* s1 < s2 on Python strings: by code point, a proper prefix is smaller
RECURSIVE StrLess(_, _)
StrLess(s1, s2) ==
  IF s2 = <<>> THEN FALSE
  ELSE IF s1 = <<>> THEN TRUE
  ELSE IF Ord[Head(s1)] # Ord[Head(s2)] THEN Ord[Head(s1)] < Ord[Head(s2)]
  ELSE StrLess(Tail(s1), Tail(s2))

\* s.split(sep): the pieces of s between the occurrences of sep
RECURSIVE Split(_, _)
Split(s, sep) ==
  IF \A i \in 1..Len(s) : s[i] # sep THEN <<s>>
  ELSE LET k == CHOOSE i \in 1..Len(s) :
                  s[i] = sep /\ \A j \in 1..(i - 1) : s[j] # sep
       IN <<SubSeq(s, 1, k - 1)>> \o Split(SubSeq(s, k + 1, Len(s)), sep)

----------------------------------------------------------------------------
(* SEMVER_REGEX                                                            *)

\* the first index at or after i whose character is outside class
RECURSIVE RunEnd(_, _, _)
RunEnd(s, i, class) ==
  IF i > Len(s) \/ s[i] \notin class THEN i ELSE RunEnd(s, i + 1, class)

\* 0|[1-9]\d* at index i: the index after the match, 0 when there is none
NumEnd(s, i) ==
  IF i > Len(s) THEN 0
  ELSE IF s[i] = "0" THEN i + 1
  ELSE IF s[i] \in Digits THEN RunEnd(s, i + 1, Digits)
  ELSE 0

\* .(0|[1-9]\d*), -([\w.-]+), +([\w.-]+): an optional group opened by the
\* character open at index i; the index after it, i when it does not match
NumGroupEnd(s, i) ==
  IF i <= Len(s) /\ s[i] = "." /\ NumEnd(s, i + 1) # 0
  THEN NumEnd(s, i + 1) ELSE i

IdentGroupEnd(s, i, open) ==
  IF i <= Len(s) /\ s[i] = open /\ RunEnd(s, i + 1, IdentChars) > i + 1
  THEN RunEnd(s, i + 1, IdentChars) ELSE i

Group(s, from, to) == IF to > from THEN Some(SubSeq(s, from + 1, to - 1)) ELSE None

\* SEMVER_REGEX.match(s): matched, and the groupdict of the match
NoMatch == [matched |-> FALSE]

SEMVER_REGEX(s) ==
  LET e1 == NumEnd(s, 1) IN
  IF e1 = 0 \/ e1 > Len(s) \/ s[e1] # "." THEN NoMatch
  ELSE
    LET e2 == NumEnd(s, e1 + 1) IN
    IF e2 = 0 THEN NoMatch
    ELSE
      LET e3 == NumGroupEnd(s, e2)
          e4 == IdentGroupEnd(s, e3, "-")
          e5 == IdentGroupEnd(s, e4, "+")
      IN
      \* $ matches at the end and before a newline that ends the string
      IF e5 = Len(s) + 1 \/ (e5 = Len(s) /\ s[e5] = "\n")
      THEN [matched |-> TRUE,
            groups |-> [major |-> Some(SubSeq(s, 1, e1 - 1)),
                        minor |-> Some(SubSeq(s, e1 + 1, e2 - 1)),
                        patch |-> Group(s, e2, e3),
                        pre_release |-> Group(s, e3, e4),
                        build_metadata |-> Group(s, e4, e5)]]
      ELSE NoMatch

----------------------------------------------------------------------------
(* SemanticVersion                                                         *)

Raise(exc) == [raised |-> exc]

Return(v) == [raised |-> "none", value |-> v]

Raised(r) == r.raised # "none"

\* int(x) as __init__ applies it: a TypeError for None, a ValueError for a
\* string that is no decimal number
int(x) ==
  IF ~x.some THEN Raise("TypeError")
  ELSE IF ~IsDigit(x.str) THEN Raise("ValueError")
  ELSE Return(StrToInt(x.str))

\* dict.get(key, default): the default only when the key is missing
DictGet(d, key, default) == IF key \in DOMAIN d THEN d[key] ELSE default

\* SemanticVersion(major, minor, patch, pre_release, build_metadata)
SemanticVersion(major, minor, patch, pre_release, build_metadata) ==
  LET ma == int(major)
      mi == int(minor)
      pa == int(patch)
  IN IF Raised(ma) THEN ma
     ELSE IF Raised(mi) THEN mi
     ELSE IF Raised(pa) THEN pa
     ELSE Return([major |-> ma.value, minor |-> mi.value, patch |-> pa.value,
                  pre_release |-> pre_release,
                  build_metadata |-> build_metadata])

\* SemanticVersion.parse_version(version_str)
parse_version(s) ==
  LET match == SEMVER_REGEX(s) IN
  IF ~match.matched THEN Raise("ValueError")
  ELSE LET groups == match.groups IN
       SemanticVersion(groups.major,
                       groups.minor,
                       DictGet(groups, "patch", Some(<<"0">>)),
                       DictGet(groups, "pre_release", None),
                       DictGet(groups, "build_metadata", None))

\* __eq__ that also compares build_metadata
Eq_WithBuildMetadata(self, other) ==
  /\ self.major = other.major
  /\ self.minor = other.minor
  /\ self.patch = other.patch
  /\ self.pre_release = other.pre_release
  /\ self.build_metadata = other.build_metadata

\* SemanticVersion.__eq__(self, other), both SemanticVersions
Eq(self, other) ==
  /\ self.major = other.major
  /\ self.minor = other.minor
  /\ self.patch = other.patch
  /\ self.pre_release = other.pre_release

\* (int(sub1) if sub1.isdigit() else sub1) < (int(sub2) if sub2.isdigit()
\* else sub2): an int and a str do not compare
TokenLess(sub1, sub2) ==
  IF IsDigit(sub1) /\ IsDigit(sub2) THEN Return(StrToInt(sub1) < StrToInt(sub2))
  ELSE IF ~IsDigit(sub1) /\ ~IsDigit(sub2) THEN Return(StrLess(sub1, sub2))
  ELSE Raise("TypeError")

BoolInt(b) == IF b THEN 1 ELSE 0

\* the loop without the length of the parts as its last word
RECURSIVE ComparePairs_NoLength(_, _, _)
ComparePairs_NoLength(pr1_parts, pr2_parts, i) ==
  IF i > Len(pr1_parts) \/ i > Len(pr2_parts)
  THEN Return(0)
  ELSE LET r == TokenLess(pr1_parts[i], pr2_parts[i]) IN
       IF r.raised = "ValueError"
       THEN ComparePairs_NoLength(pr1_parts, pr2_parts, i + 1)
       ELSE IF Raised(r) THEN r
       ELSE IF r.value THEN Return(-1)
       ELSE IF BoolInt(r.value) > 0 THEN Return(1)
       ELSE ComparePairs_NoLength(pr1_parts, pr2_parts, i + 1)

\* the loop of _compare_pre_release over zip(pr1_parts, pr2_parts), from
\* the pair at index i on, and the return that follows it
RECURSIVE ComparePairs(_, _, _)
ComparePairs(pr1_parts, pr2_parts, i) ==
  IF i > Len(pr1_parts) \/ i > Len(pr2_parts)
  THEN Return(Len(pr1_parts) - Len(pr2_parts))
  ELSE LET r == TokenLess(pr1_parts[i], pr2_parts[i]) IN
       IF r.raised = "ValueError" THEN ComparePairs(pr1_parts, pr2_parts, i + 1)
       ELSE IF Raised(r) THEN r
       ELSE IF r.value THEN Return(-1)
       ELSE IF BoolInt(r.value) > 0 THEN Return(1)
       ELSE ComparePairs(pr1_parts, pr2_parts, i + 1)

\* _compare_pre_release with the release below its pre-releases
compare_pre_release_ReleaseFirst(pr1, pr2) ==
  IF ~pr1.some THEN Return(IF pr2.some /\ pr2.str # <<>> THEN -1 ELSE 0)
  ELSE IF ~pr2.some THEN Return(1)
  ELSE ComparePairs(Split(pr1.str, "."), Split(pr2.str, "."), 1)

\* SemanticVersion._compare_pre_release(pr1, pr2)
compare_pre_release(pr1, pr2) ==
  IF ~pr1.some THEN Return(IF pr2.some /\ pr2.str # <<>> THEN 1 ELSE 0)
  ELSE IF ~pr2.some THEN Return(-1)
  ELSE ComparePairs(Split(pr1.str, "."), Split(pr2.str, "."), 1)

\* a tuple comparison that any smaller component decides
TupleLess_AnyComponent(a, b) ==
  a.major < b.major \/ a.minor < b.minor \/ a.patch < b.patch

\* (a.major, a.minor, a.patch) < (b.major, b.minor, b.patch) on tuples
TupleLess(a, b) ==
  \/ a.major < b.major
  \/ a.major = b.major /\ a.minor < b.minor
  \/ a.major = b.major /\ a.minor = b.minor /\ a.patch < b.patch

\* SemanticVersion.__lt__(self, other), both SemanticVersions
Lt(self, other) ==
  IF <<self.major, self.minor, self.patch>>
       # <<other.major, other.minor, other.patch>>
  THEN Return(TupleLess(self, other))
  ELSE LET c == compare_pre_release(self.pre_release, other.pre_release) IN
       IF Raised(c) THEN c ELSE Return(c.value < 0)

----------------------------------------------------------------------------
(* The strings the versions are parsed from                                *)

\* the largest major, minor or patch number of the compared versions
MaxNum == 1

\* the largest number of dot-separated tokens of a compared pre-release
MaxTokens == 2

\* str(n) of a non-negative integer
RECURSIVE Dec(_)
Dec(n) ==
  LET d == <<"0", "1", "2", "3", "4", "5", "6", "7", "8", "9">>[(n % 10) + 1]
  IN IF n < 10 THEN <<d>> ELSE Dec(n \div 10) \o <<d>>

\* sep.join(parts)
RECURSIVE Join(_, _)
Join(parts, sep) ==
  IF parts = <<>> THEN <<>>
  ELSE IF Len(parts) = 1 THEN parts[1]
  ELSE parts[1] \o <<sep>> \o Join(Tail(parts), sep)

\* the non-empty sequences of at most n elements of S
SeqsUpTo(S, n) == UNION {[1..k -> S] : k \in 1..n}

\* suffix strings: nothing, or the opening character and one of the bodies
Optional(open, bodies) == {<<>>} \cup {<<open>> \o b : b \in bodies}

Cores(nums) ==
  {Join(<<Dec(ma), Dec(mi), Dec(pa)>>, ".") : ma \in nums, mi \in nums, pa \in nums}

\* pre-release tokens: two that order by code point against their length,
\* two numbers that order against their spelling, and a number spelled
\* with a leading zero
Tokens == {<<"a", "b">>, <<"b">>, <<"2">>, <<"1", "0">>, <<"0", "2">>}

PreReleases == {Join(ts, ".") : ts \in SeqsUpTo(Tokens, MaxTokens)}

\* one release and every pre-release of it
PreReleaseInputs == {<<"1", ".", "0", ".", "0">> \o p : p \in Optional("-", PreReleases)}

\* every release number, alone, as a pre-release and with build metadata
ReleaseInputs ==
  {c \o p \o b : c \in Cores(0..MaxNum),
                 p \in Optional("-", {<<"b">>}),
                 b \in Optional("+", {<<"x">>, <<"y">>})}

CompareInputs == PreReleaseInputs \cup ReleaseInputs

\* strings inside and outside the grammar: with and without PATCH, leading
\* zeros, missing and non-numeric components, malformed suffixes, and extra
\* characters before and after
ParseCores ==
  {<<"1", ".", "0", ".", "0">>, <<"1", "0", ".", "2", ".", "1">>,
   <<"1", ".", "2">>, <<"0", ".", "0">>, <<"1">>, <<>>,
   <<"0", "1", ".", "0", ".", "0">>, <<"1", ".", "0", "2", ".", "0">>,
   <<"1", ".", "0", ".", "0", "0">>, <<"a", ".", "0", ".", "0">>,
   <<"1", ".", "a", ".", "0">>, <<"1", ".", "0", ".", "a">>,
   <<"1", ".", ".", "0">>, <<"1", ".", "0", ".">>,
   <<"1", ".", "0", ".", "0", ".", "0">>}

ParsePreReleases ==
  {<<"a", "b">>, <<"b", ".", "2">>, <<"a", "-", "b">>, <<"a", "_", "b">>,
   <<"a", ".", ".", "b">>, <<".", "a">>, <<"a", ".">>, <<>>, <<"-">>}

ParseBuilds ==
  {<<"x">>, <<"x", ".", "2">>, <<"x", "_", "y">>, <<"x", ".", ".", "y">>,
   <<>>, <<"x", "+", "y">>}

ParseInputs ==
  {l \o c \o p \o b \o t : l \in {<<>>, <<"v">>, <<" ">>},
                          c \in ParseCores,
                          p \in Optional("-", ParsePreReleases),
                          b \in Optional("+", ParseBuilds),
                          t \in {<<>>, <<"\n">>, <<" ">>, <<"\n", "\n">>}}

----------------------------------------------------------------------------
(* The state machine: two strings are parsed, in either order, and the     *)
(* two versions, when both exist, are compared.                            *)

Slots == {"a", "b"}

Unset == [raised |-> "unset"]

\* the file system and the NuGet client with its tasks; the version classes
\* use neither
system == <<fs, client, tasks>>

NoSystem == fs = Unset /\ client = Unset /\ tasks = Unset

Init ==
  /\ \/ version_str \in [Slots -> CompareInputs]
     \/ \E s \in ParseInputs :
          version_str = [a |-> s, b |-> <<"1", ".", "0", ".", "0">>]
  /\ version = [slot \in Slots |-> Unset]
  /\ result = Unset
  /\ pc = [slot \in Slots |-> "parse"]
  /\ NoSystem

\* version[slot] = SemanticVersion.parse_version(version_str[slot])
ParseVersion(slot) ==
  /\ pc[slot] = "parse"
  /\ version' = [version EXCEPT ![slot] = parse_version(version_str[slot])]
  /\ pc' = [pc EXCEPT ![slot] = "parsed"]
  /\ UNCHANGED <<version_str, result, system>>

\* a < b, b < a and a == b of the two versions
Compare ==
  /\ \A slot \in Slots : pc[slot] = "parsed" /\ ~Raised(version[slot])
  /\ result = Unset
  /\ LET a == version["a"].value
         b == version["b"].value
     IN result' = [raised |-> "none",
                   lt_ab |-> Lt(a, b), lt_ba |-> Lt(b, a),
                   eq_ab |-> Eq(a, b), eq_ba |-> Eq(b, a)]
  /\ UNCHANGED <<version_str, version, pc, system>>

Next ==
  \/ \E slot \in Slots : ParseVersion(slot)
  \/ Compare

Spec == Init /\ [][Next]_vars

----------------------------------------------------------------------------
(* The grammar and the order as the specification words them               *)

Alnum == Digits \cup Letters

\* a digit sequence with no leading zero, except the literal "0"
IsNumber(t) == IsDigit(t) /\ (Len(t) = 1 \/ t[1] # "0")

\* MAJOR.MINOR[.PATCH]
IsCore(c) ==
  LET nums == Split(c, ".") IN
  Len(nums) \in {2, 3} /\ \A k \in 1..Len(nums) : IsNumber(nums[k])

\* a non-empty dot-separated sequence of non-empty tokens of alphanumerics
\* and hyphens
IsTokenSeq(t) ==
  LET toks == Split(t, ".") IN
  \A k \in 1..Len(toks) :
    /\ toks[k] # <<>>
    /\ \A n \in 1..Len(toks[k]) : toks[k][n] \in Alnum \cup {"-"}

\* a non-empty run of the characters a suffix is written in, well-formed
\* tokens or not
IsSuffixText(t) == t # <<>> /\ \A n \in 1..Len(t) : t[n] \in IdentChars

\* the <<i, j>> at which s splits into a core s[1..i], a pre-release suffix
\* s[i+1..j] and a build suffix s[j+1..], each suffix empty or its opening
\* character and a body that satisfies Body
Splits(s, Body(_)) ==
  {ij \in (0..Len(s)) \X (0..Len(s)) :
     /\ ij[1] <= ij[2]
     /\ IsCore(SubSeq(s, 1, ij[1]))
     /\ \/ ij[1] = ij[2]
        \/ s[ij[1] + 1] = "-" /\ Body(SubSeq(s, ij[1] + 2, ij[2]))
     /\ \/ ij[2] = Len(s)
        \/ s[ij[2] + 1] = "+" /\ Body(SubSeq(s, ij[2] + 2, Len(s)))}

\* MAJOR.MINOR[.PATCH][-PRERELEASE][+BUILD]
MatchesGrammar(s) == Splits(s, IsTokenSeq) # {}

\* the numeric core is MAJOR.MINOR[.PATCH] and nothing but suffixes follows
HasNumericCore(s) == Splits(s, IsSuffixText) # {}

Parsed(slot) == pc[slot] = "parsed"

Returned(slot) == Parsed(slot) /\ ~Raised(version[slot])

Compared == result # Unset

Va == version["a"].value

Vb == version["b"].value

SameTriple(a, b) ==
  a.major = b.major /\ a.minor = b.minor /\ a.patch = b.patch

\* a compares LESS than b: a < b is true and b < a is false
Less(lt, gt) == lt = Return(TRUE) /\ gt = Return(FALSE)

PreTokens(v) == Split(v.pre_release.str, ".")

BothPreReleases == Compared /\ SameTriple(Va, Vb)
                     /\ Va.pre_release.some /\ Vb.pre_release.some

\* the aligned positions of the two pre-releases
Aligned == 1..(IF Len(PreTokens(Va)) < Len(PreTokens(Vb))
               THEN Len(PreTokens(Va)) ELSE Len(PreTokens(Vb)))

\* the first aligned position at which the tokens differ, 0 when none does
FirstDiff ==
  IF \A k \in Aligned : PreTokens(Va)[k] = PreTokens(Vb)[k] THEN 0
  ELSE CHOOSE k \in Aligned :
         /\ PreTokens(Va)[k] # PreTokens(Vb)[k]
         /\ \A n \in 1..(k - 1) : PreTokens(Va)[n] = PreTokens(Vb)[n]

\* t1 is the smaller token: numerically when both are integers,
\* lexicographically otherwise
TokenSmaller(t1, t2) ==
  IF IsDigit(t1) /\ IsDigit(t2) THEN StrToInt(t1) < StrToInt(t2)
  ELSE StrLess(t1, t2)

----------------------------------------------------------------------------
(* Claims                                                                  *)

\* C1: parse_version of a string that matches the grammar and has no PATCH
\* (MAJOR.MINOR with optional suffixes) returns a version with patch 0 and
\* with major and minor taken from the string.
C1_PatchDefaultsToZero ==
  \A slot \in Slots :
    Parsed(slot) =>
      \A ij \in Splits(version_str[slot], IsTokenSeq) :
        LET nums == Split(SubSeq(version_str[slot], 1, ij[1]), ".") IN
        Len(nums) = 2 =>
          /\ ~Raised(version[slot])
          /\ version[slot].value.major = StrToInt(nums[1])
          /\ version[slot].value.minor = StrToInt(nums[2])
          /\ version[slot].value.patch = 0

\* C2: a == b holds if and only if the comparison of a and b is EQUAL, that
\* is neither a < b nor b < a holds (stated for the pairs whose comparisons
\* return).
C2_EqIffCompareEqual ==
  (Compared /\ ~Raised(result.lt_ab) /\ ~Raised(result.lt_ba)) =>
    (result.eq_ab <=> (~result.lt_ab.value /\ ~result.lt_ba.value))

\* C3: with equal (major, minor, patch) and two pre-releases, the first
\* aligned pair of tokens that differ decides: the version with the smaller
\* token there is LESS and the other is not, whatever the later tokens are
\* (stated for the pairs that are two integers or two non-integers).
C3_FirstDifferingPairDecides ==
  (BothPreReleases /\ FirstDiff # 0) =>
    LET t1 == PreTokens(Va)[FirstDiff]
        t2 == PreTokens(Vb)[FirstDiff]
    IN (IsDigit(t1) <=> IsDigit(t2)) =>
         /\ TokenSmaller(t1, t2) => Less(result.lt_ab, result.lt_ba)
         /\ TokenSmaller(t2, t1) => Less(result.lt_ba, result.lt_ab)

\* C4: comparing two pre-releases that hold, at some aligned position, an
\* integer token and a non-integer token, or two non-integer tokens, yields
\* a result; the comparison does not fail with an error.
C4_MixedTokensCompare ==
  (BothPreReleases /\ \E k \in Aligned :
                        ~IsDigit(PreTokens(Va)[k]) \/ ~IsDigit(PreTokens(Vb)[k])) =>
    ~Raised(result.lt_ab) /\ ~Raised(result.lt_ba)

\* C5: with equal (major, minor, patch), a version with a pre-release is
\* less than the version without one, and the release is not less than the
\* pre-release.
C5_PreReleaseBelowRelease ==
  (Compared /\ SameTriple(Va, Vb)
     /\ Va.pre_release.some /\ ~Vb.pre_release.some) =>
    Less(result.lt_ab, result.lt_ba)

C5_Witness ==
  /\ Compared /\ SameTriple(Va, Vb)
  /\ Va.pre_release.some /\ ~Vb.pre_release.some
  /\ Len(PreTokens(Va)) = MaxTokens

\* the token sequence p is a proper prefix of the token sequence q
ProperPrefix(p, q) == Len(p) < Len(q) /\ SubSeq(q, 1, Len(p)) = p

\* C6: with equal (major, minor, patch), when the pre-release tokens of one
\* version are a proper prefix of the other's, the version with the shorter
\* sequence is less than the other, and not the reverse.
C6_ShorterPrefixIsLess ==
  (BothPreReleases /\ ProperPrefix(PreTokens(Va), PreTokens(Vb))) =>
    Less(result.lt_ab, result.lt_ba)

C6_Witness ==
  /\ BothPreReleases /\ ProperPrefix(PreTokens(Va), PreTokens(Vb))
  /\ result.lt_ab = Return(TRUE)

\* C7: build_metadata takes no part in equality or order: two versions
\* that agree on major, minor, patch and pre_release are equal and neither
\* is less than the other, whatever their build_metadata.
C7_BuildMetadataIgnored ==
  (Compared /\ SameTriple(Va, Vb) /\ Va.pre_release = Vb.pre_release) =>
    /\ result.eq_ab /\ result.eq_ba
    /\ result.lt_ab = Return(FALSE) /\ result.lt_ba = Return(FALSE)

C7_Witness ==
  /\ Compared /\ SameTriple(Va, Vb) /\ Va.pre_release = Vb.pre_release
  /\ Va.build_metadata.some /\ ~Vb.build_metadata.some
  /\ result.eq_ab

Triple(v) == <<v.major, v.minor, v.patch>>

\* the first of major, minor, patch in which the triples s and t differ
FirstDifference(s, t) ==
  CHOOSE k \in 1..3 : s[k] # t[k] /\ \A n \in 1..(k - 1) : s[n] = t[n]

\* C8: when (major, minor, patch) differ, a < b holds exactly when a is the
\* smaller in the most significant component that differs; pre_release and
\* build_metadata have no influence.
C8_TripleDecides ==
  (Compared /\ ~SameTriple(Va, Vb)) =>
    LET k == FirstDifference(Triple(Va), Triple(Vb)) IN
    /\ result.lt_ab = Return(Triple(Va)[k] < Triple(Vb)[k])
    /\ result.lt_ba = Return(Triple(Vb)[k] < Triple(Va)[k])

C8_Witness ==
  /\ Compared
  /\ Va.major < Vb.major /\ Va.minor > Vb.minor /\ Va.patch > Vb.patch
  /\ ~Va.pre_release.some /\ Vb.pre_release.some
  /\ result.lt_ab = Return(TRUE)

\* C9: parse_version fails with ValueError for every string whose numeric
\* core is not MAJOR.MINOR[.PATCH] of digit-only components without leading
\* zeros, or that has an extra character before or after.
C9_RejectsOutsideGrammar ==
  \A slot \in Slots :
    (Parsed(slot) /\ ~HasNumericCore(version_str[slot])) =>
      version[slot].raised = "ValueError"

\* C10: every version parse_version returns has non-negative major, minor
\* and patch, and a pre_release and build_metadata that, when present, are
\* non-empty dot-separated sequences of non-empty tokens of alphanumerics
\* and hyphens.
C10_ParsedVersionInvariant ==
  \A slot \in Slots :
    Returned(slot) =>
      LET v == version[slot].value IN
      /\ v.major >= 0 /\ v.minor >= 0 /\ v.patch >= 0
      /\ v.pre_release.some => IsTokenSeq(v.pre_release.str)
      /\ v.build_metadata.some => IsTokenSeq(v.build_metadata.str)

----------------------------------------------------------------------------
(* SemanticVersion.__str__ and the round trip through it                   *)

\* str(n), f"{n}" of an integer
IntToStr(n) == IF n < 0 THEN <<"-">> \o Dec(-n) ELSE Dec(n)

\* the truth value of an Optional[str]: neither None nor empty
Truthy(x) == x.some /\ x.str # <<>>

\* __str__ with the build metadata before the pre-release
SemanticVersion_str_BuildFirst(self) ==
  LET core == IntToStr(self.major) \o <<".">> \o IntToStr(self.minor)
                \o <<".">> \o IntToStr(self.patch)
      with_build == IF Truthy(self.build_metadata)
                    THEN core \o <<"+">> \o self.build_metadata.str ELSE core
  IN IF Truthy(self.pre_release)
     THEN with_build \o <<"-">> \o self.pre_release.str ELSE with_build

\* __str__ that writes both separators, present or not
SemanticVersion_str_AlwaysSeparators(self) ==
  IntToStr(self.major) \o <<".">> \o IntToStr(self.minor)
    \o <<".">> \o IntToStr(self.patch)
    \o <<"-">> \o self.pre_release.str \o <<"+">> \o self.build_metadata.str

\* SemanticVersion.__str__(self)
SemanticVersion_str(self) ==
  LET core == IntToStr(self.major) \o <<".">> \o IntToStr(self.minor)
                \o <<".">> \o IntToStr(self.patch)
      with_pre == IF Truthy(self.pre_release)
                  THEN core \o <<"-">> \o self.pre_release.str ELSE core
  IN IF Truthy(self.build_metadata)
     THEN with_pre \o <<"+">> \o self.build_metadata.str ELSE with_pre

\* every string of the model, one slot
RenderInputs == ParseInputs \cup CompareInputs

\* slot a holds the string; slot b waits for the rendering of a's version
RenderInit ==
  /\ \E s \in RenderInputs : version_str = [a |-> s, b |-> <<>>]
  /\ version = [slot \in Slots |-> Unset]
  /\ result = Unset
  /\ pc = [a |-> "parse", b |-> "wait"]
  /\ NoSystem

\* version_str["b"] = str(version["a"])
Render ==
  /\ pc["a"] = "parsed" /\ ~Raised(version["a"])
  /\ pc["b"] = "wait"
  /\ version_str' =
       [version_str EXCEPT !["b"] = SemanticVersion_str(version["a"].value)]
  /\ pc' = [pc EXCEPT !["b"] = "parse"]
  /\ UNCHANGED <<version, result, system>>

RenderNext ==
  \/ \E slot \in Slots : ParseVersion(slot)
  \/ Render
  \/ Compare

RenderSpec == RenderInit /\ [][RenderNext]_vars

Rendered == pc["b"] # "wait"

\* C11: rendering a parsed version and parsing the text again gives a
\* version equal to the first: parse_version(str(parse_version(s))) ==
\* parse_version(s), for every string s that parse_version accepts.
C11_RoundTrip ==
  /\ (Rendered /\ Parsed("b")) => Returned("b")
  /\ (Rendered /\ Compared) => (result.eq_ab /\ result.eq_ba)

C11_Witness ==
  /\ Rendered /\ Compared /\ result.eq_ab
  /\ Va.pre_release.some /\ Va.build_metadata.some

\* C12: str(version) is MAJOR.MINOR.PATCH, then "-" and the pre-release if
\* there is one, then "+" and the build metadata if there is one; nothing
\* is written for an absent part.
C12_RenderedText ==
  Rendered =>
    version_str["b"] =
      Join(<<IntToStr(Va.major), IntToStr(Va.minor), IntToStr(Va.patch)>>, ".")
        \o (IF Va.pre_release.some
            THEN <<"-">> \o Va.pre_release.str ELSE <<>>)
        \o (IF Va.build_metadata.some
            THEN <<"+">> \o Va.build_metadata.str ELSE <<>>)

C12_Witness ==
  /\ Rendered
  /\ ~Va.pre_release.some /\ Va.build_metadata.some
  /\ Va.major >= 10

----------------------------------------------------------------------------
(* Version (scripts/common/version.py): major, minor, build, revision      *)

Whitespace == {" ", "\n"}

\* s.strip(), which int() applies to its argument
RECURSIVE Strip(_)
Strip(s) ==
  IF s # <<>> /\ Head(s) \in Whitespace THEN Strip(Tail(s))
  ELSE IF s # <<>> /\ s[Len(s)] \in Whitespace
  THEN Strip(SubSeq(s, 1, Len(s) - 1))
  ELSE s

\* the digits of an int() literal: decimal digits, single underscores
\* allowed between them
IsIntDigits(d) ==
  /\ d # <<>>
  /\ \A i \in 1..Len(d) : d[i] \in Digits \cup {"_"}
  /\ d[1] # "_" /\ d[Len(d)] # "_"
  /\ \A i \in 1..(Len(d) - 1) : ~(d[i] = "_" /\ d[i + 1] = "_")

IsNoUnderscore(c) == c # "_"

\* int(s) of a str: surrounding whitespace and one sign are allowed
PyInt(s) ==
  LET t == Strip(s)
      signed == t # <<>> /\ Head(t) \in {"+", "-"}
      d == IF signed THEN Tail(t) ELSE t
      n == StrToInt(SelectSeq(d, IsNoUnderscore))
  IN IF ~IsIntDigits(d) THEN Raise("ValueError")
     ELSE Return(IF signed /\ Head(t) = "-" THEN -n ELSE n)

\* the truth value of a str
Bool(s) == s # <<>>

\* sub in s, for a one-character sub
Contains(sub, s) == \E i \in 1..Len(s) : s[i] = sub

\* Version(major, minor=0, build=-1, revision=-1)
Version(major, minor, build, revision) ==
  [major |-> major, minor |-> minor, build |-> build, revision |-> revision]

\* cls(int(segments[0]), ...): the first int() that raises ends the call
VersionOfSegments(segments) ==
  LET ints == [i \in 1..Len(segments) |-> PyInt(segments[i])]
      arg(i, default) == IF i <= Len(segments) THEN ints[i].value ELSE default
  IN IF \E i \in 1..Len(segments) : Raised(ints[i])
     THEN ints[CHOOSE i \in 1..Len(segments) :
                 Raised(ints[i]) /\ \A j \in 1..(i - 1) : ~Raised(ints[j])]
     ELSE Return(Version(arg(1, 0), arg(2, 0), arg(3, -1), arg(4, -1)))

\* parse with the test "+" in version or "-" in version
Version_parse_MembershipTest(version_text) ==
  IF Contains("+", version_text) \/ Contains("-", version_text)
  THEN Raise("MalformedVersionError")
  ELSE LET segments == Split(version_text, ".") IN
       IF Len(segments) = 0 \/ Len(segments) > 4
       THEN Raise("MalformedVersionError")
       ELSE VersionOfSegments(segments)

\* Version.parse(version): `"+" or "-" in version` is the truth value of
\* "+", or else the membership test
Version_parse(version_text) ==
  IF Bool(<<"+">>) \/ Contains("-", version_text)
  THEN Raise("MalformedVersionError")
  ELSE LET segments == Split(version_text, ".")
           total_segments == Len(segments)
       IN IF total_segments = 0 \/ total_segments > 4
          THEN Raise("MalformedVersionError")
          ELSE VersionOfSegments(segments)

\* to_string that lets a field_count of 0 through
Version_to_string_ZeroAllowed(self, field_count) ==
  IF field_count < 0 \/ field_count > 4 THEN Raise("ValueError")
  ELSE IF field_count = 1 THEN Return(IntToStr(self.major))
  ELSE IF field_count = 2
  THEN Return(IntToStr(self.major) \o <<".">> \o IntToStr(self.minor))
  ELSE IF field_count = 3
  THEN Return(IntToStr(self.major) \o <<".">> \o IntToStr(self.minor)
                \o <<".">> \o IntToStr(self.build))
  ELSE Return(IntToStr(self.major) \o <<".">> \o IntToStr(self.minor)
                \o <<".">> \o IntToStr(self.build)
                \o <<".">> \o IntToStr(self.revision))

\* Version.to_string(self, field_count)
Version_to_string(self, field_count) ==
  IF field_count <= 0 \/ field_count > 4 THEN Raise("ValueError")
  ELSE IF field_count = 1 THEN Return(IntToStr(self.major))
  ELSE IF field_count = 2
  THEN Return(IntToStr(self.major) \o <<".">> \o IntToStr(self.minor))
  ELSE IF field_count = 3
  THEN Return(IntToStr(self.major) \o <<".">> \o IntToStr(self.minor)
                \o <<".">> \o IntToStr(self.build))
  ELSE Return(IntToStr(self.major) \o <<".">> \o IntToStr(self.minor)
                \o <<".">> \o IntToStr(self.build)
                \o <<".">> \o IntToStr(self.revision))

\* Version.__str__(self): three ifs in a row, the last that holds wins
Version_str(self) ==
  LET fields1 == IF self.revision > 0 THEN 4 ELSE 1
      fields2 == IF self.build > 0 THEN 3 ELSE fields1
      fields3 == IF self.minor > 0 THEN 2 ELSE fields2
  IN Version_to_string(self, fields3)

\* Version.__eq__(self, other), both Versions
Version_eq(self, other) ==
  /\ self.major = other.major
  /\ self.minor = other.minor
  /\ self.build = other.build
  /\ self.revision = other.revision

\* __lt__ as the comparison of the tuples of the four components
Version_lt_Lexicographic(self, other) ==
  \/ self.major < other.major
  \/ self.major = other.major /\ self.minor < other.minor
  \/ self.major = other.major /\ self.minor = other.minor
       /\ self.build < other.build
  \/ self.major = other.major /\ self.minor = other.minor
       /\ self.build = other.build /\ self.revision < other.revision

\* __lt__ without the test of revision
Version_lt_NoRevision(self, other) ==
  IF self.major < other.major THEN TRUE
  ELSE IF self.minor < other.minor THEN TRUE
  ELSE IF self.build < other.build THEN TRUE
  ELSE FALSE

\* Version.__lt__(self, other), both Versions
Version_lt(self, other) ==
  IF self.major < other.major THEN TRUE
  ELSE IF self.minor < other.minor THEN TRUE
  ELSE IF self.build < other.build THEN TRUE
  ELSE IF self.revision < other.revision THEN TRUE
  ELSE FALSE

----------------------------------------------------------------------------
(* The state machine of Version: a string is parsed, or versions are built *)
(* from their components; one version is rendered, two are compared.       *)

\* the largest component of a built version, next to -1, 0 and 10
MaxField == 1

MajorValues == (0..MaxField) \cup {10}

BuildValues == (-1..MaxField) \cup {10}

\* field_count arguments inside and outside 1..4
FieldCounts == -1..6

\* segments that are canonical numbers, and segments that are not
NumberSegments == {<<"0">>, <<"1">>, <<"1", "0">>}

OtherSegments ==
  {<<>>, <<"a">>, <<"-", "1">>, <<"+", "1">>, <<" ", "1">>, <<"0", "1">>,
   <<"1", "_", "0">>, <<"1", "+", "2">>, <<"1", "-", "b">>}

\* one to five canonical segments, and one to three segments of any kind
VersionInputs ==
  {Join(segs, ".") : segs \in SeqsUpTo(NumberSegments, 5)
                              \cup SeqsUpTo(NumberSegments \cup OtherSegments, 3)}

VersionInit ==
  /\ \/ /\ \E s \in VersionInputs : version_str = [a |-> s, b |-> <<>>]
        /\ pc = [a |-> "parse", b |-> "idle"]
     \/ /\ version_str = [slot \in Slots |-> <<>>]
        /\ pc \in {[a |-> "new", b |-> "new"], [a |-> "new", b |-> "idle"]}
  /\ version = [slot \in Slots |-> Unset]
  /\ result = Unset
  /\ NoSystem

\* version[slot] = Version.parse(version_str[slot])
VersionParse(slot) ==
  /\ pc[slot] = "parse"
  /\ version' = [version EXCEPT ![slot] = Version_parse(version_str[slot])]
  /\ pc' = [pc EXCEPT ![slot] = "parsed"]
  /\ UNCHANGED <<version_str, result, system>>

\* version[slot] = Version(major, minor, build, revision)
VersionNew(slot) ==
  /\ pc[slot] = "new"
  /\ \E major \in MajorValues, minor \in MajorValues,
        build \in BuildValues, revision \in BuildValues :
       version' = [version EXCEPT
                     ![slot] = Return(Version(major, minor, build, revision))]
  /\ pc' = [pc EXCEPT ![slot] = "built"]
  /\ UNCHANGED <<version_str, result, system>>

\* slot a holds a version and slot b is not in use
Single ==
  /\ pc["a"] \in {"parsed", "built"} /\ ~Raised(version["a"])
  /\ pc["b"] = "idle"

\* version["a"].to_string(field_count)
VersionToString ==
  /\ Single /\ result = Unset
  /\ \E field_count \in FieldCounts :
       result' = [raised |-> "none", op |-> "to_string",
                  field_count |-> field_count,
                  text |-> Version_to_string(version["a"].value, field_count)]
  /\ UNCHANGED <<version_str, version, pc, system>>

\* str(version["a"])
VersionStr ==
  /\ Single /\ result = Unset
  /\ result' = [raised |-> "none", op |-> "str",
                text |-> Version_str(version["a"].value)]
  /\ UNCHANGED <<version_str, version, pc, system>>

\* a < b, b < a and a == b of two versions
VersionCompare ==
  /\ \A slot \in Slots :
       pc[slot] \in {"parsed", "built"} /\ ~Raised(version[slot])
  /\ result = Unset
  /\ LET a == version["a"].value
         b == version["b"].value
     IN result' = [raised |-> "none", op |-> "compare",
                   lt_ab |-> Version_lt(a, b), lt_ba |-> Version_lt(b, a),
                   eq_ab |-> Version_eq(a, b), eq_ba |-> Version_eq(b, a)]
  /\ UNCHANGED <<version_str, version, pc, system>>

VersionNext ==
  \/ \E slot \in Slots : VersionParse(slot)
  \/ \E slot \in Slots : VersionNew(slot)
  \/ VersionToString
  \/ VersionStr
  \/ VersionCompare

VersionSpec == VersionInit /\ [][VersionNext]_vars

----------------------------------------------------------------------------
(* Claims about Version                                                    *)

Segments(s) == Split(s, ".")

\* one to four dot-separated canonical non-negative integers
IsDottedVersion(s) ==
  /\ Len(Segments(s)) \in 1..4
  /\ \A k \in 1..Len(Segments(s)) : IsNumber(Segments(s)[k])

\* slot a went through Version.parse
VersionParsed == pc["a"] = "parsed" /\ pc["b"] = "idle"

ResultOf(op) == result # Unset /\ result.op = op

\* major, minor, build, revision in this order
Fields(v) == <<v.major, v.minor, v.build, v.revision>>

\* the first k components, dot-joined
FirstFields(v, k) ==
  Join([i \in 1..k |-> IntToStr(Fields(v)[i])], ".")

\* C13: Version.parse of one to four canonical non-negative integer
\* segments succeeds with major, minor, build, revision equal to the
\* segments given, and to_string(k), k the number of segments, returns the
\* string.
C13_ParseThenToString ==
  (VersionParsed /\ IsDottedVersion(version_str["a"])) =>
    LET segs == Segments(version_str["a"]) IN
    /\ ~Raised(version["a"])
    /\ \A k \in 1..Len(segs) : Fields(Va)[k] = StrToInt(segs[k])
    /\ (ResultOf("to_string") /\ result.field_count = Len(segs)) =>
         result.text = Return(version_str["a"])

\* C14: Version.parse of a valid string with fewer than four segments
\* gives the missing components their defaults: minor 0, build -1,
\* revision -1.
C14_MissingSegmentsDefault ==
  (VersionParsed /\ IsDottedVersion(version_str["a"])
     /\ Len(Segments(version_str["a"])) < 4) =>
    /\ ~Raised(version["a"])
    /\ Len(Segments(version_str["a"])) < 2 => Va.minor = 0
    /\ Len(Segments(version_str["a"])) < 3 => Va.build = -1
    /\ Va.revision = -1

\* the strings C15 speaks of: a "+" or a "-", more than four segments, or
\* a segment that is not a non-negative integer
OutsideDottedGrammar(s) ==
  \/ Contains("+", s) \/ Contains("-", s)
  \/ Len(Segments(s)) > 4
  \/ \E k \in 1..Len(Segments(s)) : ~IsDigit(Segments(s)[k])

C16_DefaultRendering ==
  ResultOf("str") =>
    LET k == IF Va.revision > 0 THEN 4
             ELSE IF Va.build > 0 THEN 3
             ELSE IF Va.minor > 0 THEN 2
             ELSE 1
    IN result.text = Return(FirstFields(Va, k))

\* C17: to_string(field_count) fails with ValueError for a field_count
\* below 1 or above 4, and otherwise returns exactly field_count
\* components, dot-joined, in the order major, minor, build, revision.
C17_ToString ==
  ResultOf("to_string") =>
    IF result.field_count < 1 \/ result.field_count > 4
    THEN result.text = Raise("ValueError")
    ELSE result.text = Return(FirstFields(Va, result.field_count))

C17_Witness ==
  /\ ResultOf("to_string") /\ result.field_count = 4
  /\ Va.major >= 10 /\ Va.build < 0
  /\ ~Raised(result.text)

\* the first of the four components in which s and t differ
FirstDiffering(s, t) ==
  CHOOSE k \in 1..4 : s[k] # t[k] /\ \A n \in 1..(k - 1) : s[n] = t[n]

\* C18: a < b holds if and only if, at the first of major, minor, build,
\* revision where a and b differ, a's value is the smaller.
C18_FirstDifferenceDecides ==
  ResultOf("compare") =>
    (result.lt_ab <=>
       /\ Fields(Va) # Fields(Vb)
       /\ LET k == FirstDiffering(Fields(Va), Fields(Vb))
          IN Fields(Va)[k] < Fields(Vb)[k])

BuiltVersions ==
  {Version(major, minor, build, revision) :
     major \in MajorValues, minor \in MajorValues,
     build \in BuildValues, revision \in BuildValues}

\* C20 as claimed: among the versions that are compared, some a and b have
\* a < b and b < a both true, and some unequal a and b have neither a < b
\* nor b < a true.
C20_BothAndNeither ==
  ResultOf("compare") =>
    /\ \E a \in BuiltVersions, b \in BuiltVersions :
         Version_lt(a, b) /\ Version_lt(b, a)
    /\ \E a \in BuiltVersions, b \in BuiltVersions :
         ~Version_eq(a, b) /\ ~Version_lt(a, b) /\ ~Version_lt(b, a)

\* C20 as amended: a < b and b < a are both true for some a and b (the
\* witness), and neither is true only for equal versions.
C20_NeitherOnlyWhenEqual ==
  (ResultOf("compare") /\ ~result.lt_ab /\ ~result.lt_ba) =>
    (result.eq_ab /\ Fields(Va) = Fields(Vb))

C20_Witness ==
  /\ ResultOf("compare")
  /\ result.lt_ab /\ result.lt_ba /\ ~result.eq_ab

----------------------------------------------------------------------------
(* Comparisons across the classes: a SemanticVersion, a four-component     *)
(* Version and values that are no version, under Python's protocol for the *)
(* comparison operators (the method of the left operand, then the          *)
(* reflected method of the right one, then the default).                   *)

\* the return value NotImplemented of a comparison method
NotImplemented == [raised |-> "none", not_implemented |-> TRUE]

IsNotImplemented(r) == "not_implemented" \in DOMAIN r

\* type(x).__name__
ClassOf(x) ==
  IF DOMAIN x = {"major", "minor", "patch", "pre_release", "build_metadata"}
  THEN "SemanticVersion"
  ELSE IF DOMAIN x = {"major", "minor", "build", "revision"} THEN "Version"
  ELSE IF DOMAIN x = {"int"} THEN "int"
  ELSE IF DOMAIN x = {"tuple"} THEN "tuple"
  ELSE IF DOMAIN x = {"str"} THEN "str"
  ELSE "NoneType"

\* Version.__le__(self, other), both Versions
Version_le(self, other) ==
  IF self.major <= other.major THEN TRUE
  ELSE IF self.minor <= other.minor THEN TRUE
  ELSE IF self.build <= other.build THEN TRUE
  ELSE IF self.revision <= other.revision THEN TRUE
  ELSE FALSE

\* SemanticVersion.__eq__ and __lt__ with their isinstance tests
SemanticVersion_eq(self, other) ==
  IF ClassOf(other) # "SemanticVersion" THEN NotImplemented
  ELSE Return(Eq(self, other))

SemanticVersion_lt(self, other) ==
  IF ClassOf(other) # "SemanticVersion" THEN NotImplemented
  ELSE Lt(self, other)

\* the methods functools.total_ordering derives from __lt__:
\* __gt__ is `not lt and self != other`, __le__ is `lt or self == other`,
\* __ge__ is `not lt`; NotImplemented is passed on
SemanticVersion_gt(self, other) ==
  LET op_result == SemanticVersion_lt(self, other) IN
  IF IsNotImplemented(op_result) \/ Raised(op_result) THEN op_result
  ELSE Return(~op_result.value /\ ~Eq(self, other))

SemanticVersion_le(self, other) ==
  LET op_result == SemanticVersion_lt(self, other) IN
  IF IsNotImplemented(op_result) \/ Raised(op_result) THEN op_result
  ELSE Return(op_result.value \/ Eq(self, other))

SemanticVersion_ge(self, other) ==
  LET op_result == SemanticVersion_lt(self, other) IN
  IF IsNotImplemented(op_result) \/ Raised(op_result) THEN op_result
  ELSE Return(~op_result.value)

\* object.__ne__: the inverse of __eq__ unless that is NotImplemented
Inverse(r) ==
  IF IsNotImplemented(r) \/ Raised(r) THEN r ELSE Return(~r.value)

\* the comparison methods of Version: __eq__, __lt__ and __le__ are its
\* own, __ne__, __gt__ and __ge__ are those of object
Version_method(self, op, other) ==
  IF op = "==" THEN IF ClassOf(other) # "Version" THEN Return(FALSE)
                    ELSE Return(Version_eq(self, other))
  ELSE IF op = "!=" THEN IF ClassOf(other) # "Version" THEN Return(TRUE)
                         ELSE Return(~Version_eq(self, other))
  ELSE IF op \in {"<", "<="}
  THEN IF ClassOf(other) # "Version" THEN Raise("ValueError")
       ELSE IF op = "<" THEN Return(Version_lt(self, other))
       ELSE Return(Version_le(self, other))
  ELSE NotImplemented

\* type(self).__op__(self, other); int, str, tuple and None know neither
\* version class
Method(self, op, other) ==
  IF ClassOf(self) = "SemanticVersion"
  THEN IF op = "==" THEN SemanticVersion_eq(self, other)
       ELSE IF op = "!=" THEN Inverse(SemanticVersion_eq(self, other))
       ELSE IF op = "<" THEN SemanticVersion_lt(self, other)
       ELSE IF op = "<=" THEN SemanticVersion_le(self, other)
       ELSE IF op = ">" THEN SemanticVersion_gt(self, other)
       ELSE SemanticVersion_ge(self, other)
  ELSE IF ClassOf(self) = "Version" THEN Version_method(self, op, other)
  ELSE NotImplemented

Operators == {"==", "!=", "<", "<=", ">", ">="}

\* the operator whose method the right operand is asked for
Reflected(op) ==
  IF op = "<" THEN ">" ELSE IF op = ">" THEN "<"
  ELSE IF op = "<=" THEN ">=" ELSE IF op = ">=" THEN "<="
  ELSE op

\* `a op b` for two different objects of unrelated classes: when both
\* methods answer NotImplemented, == and != fall back to identity and the
\* orderings raise TypeError
RichCompare(a, op, b) ==
  LET first == Method(a, op, b) IN
  IF ~IsNotImplemented(first) THEN first
  ELSE LET second == Method(b, Reflected(op), a) IN
       IF ~IsNotImplemented(second) THEN second
       ELSE IF op = "==" THEN Return(FALSE)
       ELSE IF op = "!=" THEN Return(TRUE)
       ELSE Raise("TypeError")

\* the operands: versions of either class and values that are no version
SemanticVersions ==
  {parse_version(s).value :
     s \in {<<"1", ".", "0", ".", "0">>, <<"0", ".", "1", ".", "0">>,
            <<"1", ".", "0", ".", "0", "-", "a", "b">>}}

Versions ==
  {Version(1, 0, -1, -1), Version(1, 0, 0, -1), Version(0, 1, -1, -1)}

NonVersions ==
  {[int |-> 1], [str |-> <<"1", ".", "0", ".", "0">>], [tuple |-> <<1, 0>>],
   None}

Operands == SemanticVersions \cup Versions \cup NonVersions

IsVersion(x) == ClassOf(x) \in {"SemanticVersion", "Version"}

MixedInit ==
  /\ version_str = Unset
  /\ version = [slot \in Slots |-> Unset]
  /\ result = Unset
  /\ pc = [slot \in Slots |-> "new"]
  /\ NoSystem

\* version[slot] becomes one of the operands
MixedNew(slot) ==
  /\ pc[slot] = "new"
  /\ \E x \in Operands : version' = [version EXCEPT ![slot] = x]
  /\ pc' = [pc EXCEPT ![slot] = "built"]
  /\ UNCHANGED <<version_str, result, system>>

\* version["a"] op version["b"], for a version and a value of another class
MixedCompare ==
  /\ \A slot \in Slots : pc[slot] = "built"
  /\ result = Unset
  /\ IsVersion(version["a"]) \/ IsVersion(version["b"])
  /\ ClassOf(version["a"]) # ClassOf(version["b"])
  /\ \E op \in Operators :
       result' = [op |-> op,
                  outcome |-> RichCompare(version["a"], op, version["b"])]
  /\ UNCHANGED <<version_str, version, pc, system>>

MixedNext ==
  \/ \E slot \in Slots : MixedNew(slot)
  \/ MixedCompare

MixedSpec == MixedInit /\ [][MixedNext]_vars

\* C21: a comparison of a SemanticVersion with a Version, or of either with
\* a value that is no version, raises a type error (TypeError, or the
\* ValueError of Version), for == and != as well as for the orderings: it
\* never returns a boolean.
C21_MixedComparisonRaises ==
  result # Unset => result.outcome.raised \in {"TypeError", "ValueError"}

----------------------------------------------------------------------------
(* The three-part Version of scripts/version.py: built from a string,      *)
(* mutable, incremented in place.                                          *)

\* Version(version): three parts of digits, or ValueError
ScriptVersion(version_text) ==
  LET parts == Split(version_text, ".") IN
  IF Len(parts) # 3 \/ ~\A i \in 1..Len(parts) : IsDigit(parts[i])
  THEN Raise("ValueError")
  ELSE Return([major |-> StrToInt(parts[1]), minor |-> StrToInt(parts[2]),
               patch |-> StrToInt(parts[3])])

\* __eq__ and __lt__ compare the tuples (major, minor, patch)
ScriptVersion_eq(self, other) ==
  <<self.major, self.minor, self.patch>>
    = <<other.major, other.minor, other.patch>>

ScriptVersion_lt(self, other) == TupleLess(self, other)

\* __le__ is `self < other or self == other`
ScriptVersion_le(self, other) ==
  ScriptVersion_lt(self, other) \/ ScriptVersion_eq(self, other)

\* __gt__ is `not (self <= other)`
ScriptVersion_gt(self, other) == ~ScriptVersion_le(self, other)

\* __ge__ is `not (self < other)`
ScriptVersion_ge(self, other) == ~ScriptVersion_lt(self, other)

\* increment whose 'minor' keeps the patch number
ScriptVersion_increment_KeepPatch(self, part) ==
  IF part = <<"m", "a", "j", "o", "r">>
  THEN [raised |-> "none",
        self |-> [major |-> self.major + 1, minor |-> 0, patch |-> 0]]
  ELSE IF part = <<"m", "i", "n", "o", "r">>
  THEN [raised |-> "none", self |-> [self EXCEPT !.minor = self.minor + 1]]
  ELSE IF part = <<"p", "a", "t", "c", "h">>
  THEN [raised |-> "none", self |-> [self EXCEPT !.patch = self.patch + 1]]
  ELSE [raised |-> "ValueError", self |-> self]

\* Version.increment(self, part): the object after the call, and whether
\* the call raised
ScriptVersion_increment(self, part) ==
  IF part = <<"m", "a", "j", "o", "r">>
  THEN [raised |-> "none",
        self |-> [major |-> self.major + 1, minor |-> 0, patch |-> 0]]
  ELSE IF part = <<"m", "i", "n", "o", "r">>
  THEN [raised |-> "none",
        self |-> [self EXCEPT !.minor = self.minor + 1, !.patch = 0]]
  ELSE IF part = <<"p", "a", "t", "c", "h">>
  THEN [raised |-> "none", self |-> [self EXCEPT !.patch = self.patch + 1]]
  ELSE [raised |-> "ValueError", self |-> self]

\* the largest number of a version string, and the number up to which a
\* part is incremented
MaxPart == 2

PartNames ==
  {<<"m", "a", "j", "o", "r">>, <<"m", "i", "n", "o", "r">>,
   <<"p", "a", "t", "c", "h">>, <<"b", "u", "i", "l", "d">>,
   <<"M", "a", "j", "o", "r">>, <<>>}

ScriptVersionInputs ==
  {Join(<<Dec(a), Dec(b), Dec(c)>>, ".") : a, b, c \in 0..MaxPart}
    \cup {<<"1", ".", "2">>, <<"1", ".", "2", ".", "3", ".", "4">>,
          <<"1", ".", "a", ".", "0">>, <<"1", ".", ".", "0">>, <<>>}

IncrementInit ==
  /\ version_str \in [{"a"} -> ScriptVersionInputs]
  /\ version = [slot \in Slots |-> Unset]
  /\ result = Unset
  /\ pc = "new"
  /\ NoSystem

\* version["a"] = Version(version_str["a"])
ScriptVersionNew ==
  /\ pc = "new"
  /\ version' = [version EXCEPT !["a"] = ScriptVersion(version_str["a"])]
  /\ pc' = IF Raised(ScriptVersion(version_str["a"])) THEN "done" ELSE "built"
  /\ UNCHANGED <<version_str, result, system>>

\* version["a"].increment(part); version["b"] keeps the version before the
\* call, and the result the comparisons of the new version with it
Increment ==
  /\ pc = "built"
  /\ LET self == version["a"].value IN
     /\ self.major <= MaxPart /\ self.minor <= MaxPart /\ self.patch <= MaxPart
     /\ \E part \in PartNames :
          LET call == ScriptVersion_increment(self, part) IN
          /\ version' = [a |-> Return(call.self), b |-> Return(self)]
          /\ result' = [op |-> "increment", part |-> part,
                        raised |-> call.raised,
                        gt |-> ScriptVersion_gt(call.self, self),
                        ge |-> ScriptVersion_ge(call.self, self),
                        lt |-> ScriptVersion_lt(call.self, self),
                        le |-> ScriptVersion_le(call.self, self),
                        eq |-> ScriptVersion_eq(call.self, self)]
  /\ UNCHANGED <<version_str, pc, system>>

IncrementNext ==
  \/ ScriptVersionNew
  \/ Increment

IncrementSpec == IncrementInit /\ [][IncrementNext]_vars

\* C22: increment('major') adds 1 to major and resets minor and patch,
\* increment('minor') adds 1 to minor, resets patch and keeps major,
\* increment('patch') adds 1 to patch and keeps major and minor; any other
\* part raises ValueError and changes nothing; and after a successful
\* increment the new version is strictly greater than the old one.
C22_Increment ==
  result # Unset =>
    LET old == version["b"].value
        new == version["a"].value
    IN /\ result.part = <<"m", "a", "j", "o", "r">> =>
            /\ result.raised = "none"
            /\ new = [major |-> old.major + 1, minor |-> 0, patch |-> 0]
       /\ result.part = <<"m", "i", "n", "o", "r">> =>
            /\ result.raised = "none"
            /\ new = [major |-> old.major, minor |-> old.minor + 1,
                      patch |-> 0]
       /\ result.part = <<"p", "a", "t", "c", "h">> =>
            /\ result.raised = "none"
            /\ new = [major |-> old.major, minor |-> old.minor,
                      patch |-> old.patch + 1]
       /\ result.part \notin {<<"m", "a", "j", "o", "r">>,
                              <<"m", "i", "n", "o", "r">>,
                              <<"p", "a", "t", "c", "h">>} =>
            result.raised = "ValueError" /\ new = old
       /\ result.raised = "none" =>
            /\ result.gt /\ result.ge
            /\ ~result.lt /\ ~result.le /\ ~result.eq

\* 'minor' was incremented on a version with a patch number to reset
C22_Witness ==
  /\ result # Unset
  /\ result.part = <<"m", "i", "n", "o", "r">>
  /\ version["b"].value.patch > 0
  /\ version["b"].value.major > 0

----------------------------------------------------------------------------
(* The order of SemanticVersion                                            *)

\* a < b returned True
LtHolds(a, b) == Lt(a, b) = Return(TRUE)

\* the third version of a chain a < b < c
ThirdVersions == {parse_version(s).value : s \in PreReleaseInputs}

\* C29: '<' on parsed SemanticVersions is a strict order: a < b and b < a
\* never both hold, a < b and b < c imply a < c, and the derived operators
\* agree with it (a < b exactly when b > a, a <= b exactly when b >= a).
C29_StrictOrder ==
  Compared =>
    /\ ~(LtHolds(Va, Vb) /\ LtHolds(Vb, Va))
    /\ \A c \in ThirdVersions :
         (LtHolds(Va, Vb) /\ LtHolds(Vb, c)) => LtHolds(Va, c)
    /\ LtHolds(Va, Vb) <=> SemanticVersion_gt(Vb, Va) = Return(TRUE)
    /\ SemanticVersion_le(Va, Vb) = Return(TRUE)
         <=> SemanticVersion_ge(Vb, Va) = Return(TRUE)

----------------------------------------------------------------------------
(* The file system                                                         *)
(*                                                                         *)
(* fs maps the path of every existing file and directory, a sequence of    *)
(* names below the working directory, to its node: a directory, or a file  *)
(* with its content.                                                       *)

Dir == [kind |-> "dir"]

File(content) == [kind |-> "file", content |-> content]

Exists(files, path) == path \in DOMAIN files

IsDir(files, path) == Exists(files, path) /\ files[path].kind = "dir"

IsFile(files, path) == Exists(files, path) /\ files[path].kind = "file"

Parent(path) == SubSeq(path, 1, Len(path) - 1)

\* the working directory itself always exists
HasParent(files, path) == Len(path) = 1 \/ IsDir(files, Parent(path))

\* the file system with one more, or one changed, node
Put(files, path, node) ==
  [p \in DOMAIN files \cup {path} |-> IF p = path THEN node ELSE files[p]]

\* the file system without the node
Remove(files, path) == [p \in DOMAIN files \ {path} |-> files[p]]

\* path.open("w") and f.write(text): the directory of the file must exist
\* and the path must not be a directory
WriteText(files, path, text) ==
  IF ~HasParent(files, path) THEN [raised |-> "FileNotFoundError", fs |-> files]
  ELSE IF IsDir(files, path) THEN [raised |-> "IsADirectoryError", fs |-> files]
  ELSE [raised |-> "none", fs |-> Put(files, path, File(text))]

----------------------------------------------------------------------------
(* Environment.create_instance (scripts/environment.py)                    *)

\* Path(text): the separators split the text into parts, empty parts and
\* "." parts are dropped; one leading separator, or three and more, make the
\* root "/", exactly two the root "//"
RECURSIVE LeadingSeparators(_)
LeadingSeparators(text) ==
  IF text = <<>> \/ Head(text) # "/" THEN 0
  ELSE 1 + LeadingSeparators(Tail(text))

Path(text) ==
  [root |-> IF LeadingSeparators(text) = 0 THEN <<>>
            ELSE IF LeadingSeparators(text) = 2 THEN <<"/", "/">>
            ELSE <<"/">>,
   parts |-> SelectSeq(Split(text, "/"),
                       LAMBDA part : part # <<>> /\ part # <<".">>)]

\* str(path)
PathStr(path) ==
  IF path.root = <<>> /\ path.parts = <<>> THEN <<".">>
  ELSE path.root \o Join(path.parts, "/")

\* the cache file .run\.steam; the .run directory of the repository holds it
steam_path_file == <<".run", ".steam">>

\* create_instance that probes before it looks at the cache file
create_instance_ProbeFirst(files, dry_run, probe) ==
  IF Raised(probe)
  THEN [raised |-> probe.raised, fs |-> files, probed |-> TRUE]
  ELSE IF Exists(files, steam_path_file)
  THEN [raised |-> "none", value |-> Path(files[steam_path_file].content),
        fs |-> files, probed |-> TRUE]
  ELSE IF ~probe.value.some
  THEN [raised |-> "ValueError", fs |-> files, probed |-> TRUE]
  ELSE IF ~dry_run
  THEN LET written == WriteText(files, steam_path_file,
                                PathStr(probe.value.path))
       IN IF written.raised # "none"
          THEN [raised |-> written.raised, fs |-> written.fs, probed |-> TRUE]
          ELSE [raised |-> "none", value |-> probe.value.path,
                fs |-> written.fs, probed |-> TRUE]
  ELSE [raised |-> "none", value |-> probe.value.path, fs |-> files,
        probed |-> TRUE]

\* Environment.create_instance(dry_run), where probe is what
\* locate_steam_install() does if it is called: the steam_install_path of
\* the instance returned, the file system after the call, and whether
\* locate_steam_install ran
create_instance(files, dry_run, probe) ==
  IF Exists(files, steam_path_file)
  THEN [raised |-> "none", value |-> Path(files[steam_path_file].content),
        fs |-> files, probed |-> FALSE]
  ELSE IF Raised(probe)
  THEN [raised |-> probe.raised, fs |-> files, probed |-> TRUE]
  ELSE IF ~probe.value.some
  THEN [raised |-> "ValueError", fs |-> files, probed |-> TRUE]
  ELSE IF ~dry_run
  THEN LET written == WriteText(files, steam_path_file,
                                PathStr(probe.value.path))
       IN IF written.raised # "none"
          THEN [raised |-> written.raised, fs |-> written.fs, probed |-> TRUE]
          ELSE [raised |-> "none", value |-> probe.value.path,
                fs |-> written.fs, probed |-> TRUE]
  ELSE [raised |-> "none", value |-> probe.value.path, fs |-> files,
        probed |-> TRUE]

\* the number of create_instance calls of a behaviour
MaxCalls == 3

\* the longest text of a cache file that was not written by create_instance
MaxText == 3

PathChars == {"/", "a", "."}

Texts == {<<>>} \cup SeqsUpTo(PathChars, MaxText)

\* what locate_steam_install() can do: return None, return a path, or raise
\* on a platform it does not support
NoPath == [some |-> FALSE]

Probes ==
  {Return(NoPath), Raise("UnsupportedOperation")}
    \cup {Return([some |-> TRUE, path |-> Path(text)]) :
            text \in {<<"/", "a">>, <<"a", "/", "a">>, <<"/", "a", "/", ".", "a">>}}

\* the content of the cache file, if it exists
CacheText(files) ==
  IF Exists(files, steam_path_file)
  THEN Some(files[steam_path_file].content) ELSE None

EnvironmentInit ==
  /\ \/ fs = (<<".run">> :> Dir)
     \/ \E text \in Texts :
          fs = (<<".run">> :> Dir) @@ (steam_path_file :> File(text))
  /\ result = <<>>
  /\ pc = "idle"
  /\ version_str = Unset /\ version = Unset
  /\ client = Unset /\ tasks = Unset

\* Environment.create_instance(dry_run); result keeps one record per call
CreateInstance ==
  /\ Len(result) < MaxCalls
  /\ \E dry_run \in BOOLEAN, probe \in Probes :
       LET call == create_instance(fs, dry_run, probe) IN
       /\ fs' = call.fs
       /\ result' = Append(result,
            [dry_run |-> dry_run,
             cached |-> CacheText(fs),
             probe |-> IF call.probed THEN probe ELSE Unset,
             probed |-> call.probed,
             raised |-> call.raised,
             steam_install_path |->
               IF call.raised = "none" THEN call.value ELSE Unset,
             after |-> CacheText(call.fs)])
  /\ UNCHANGED <<version_str, version, pc, client, tasks>>

EnvironmentNext == CreateInstance

EnvironmentSpec == EnvironmentInit /\ [][EnvironmentNext]_vars

\* the call found a path and wrote it to the cache file
Wrote(call) ==
  /\ ~call.cached.some /\ ~call.dry_run
  /\ call.probe.raised = "none" /\ call.probe.value.some

\* C23: when the cache file exists, create_instance returns the path stored
\* in it and locate_steam_install is not run; when it does not exist the
\* probe runs, a result of None raises ValueError and creates no cache
\* file, and a found path is returned and, unless dry_run is set, written to
\* the cache file; every later call returns that same path without probing.
C23_SteamPathCached ==
  \A i \in 1..Len(result) :
    LET call == result[i] IN
    /\ call.cached.some =>
         /\ call.raised = "none" /\ ~call.probed
         /\ call.steam_install_path = Path(call.cached.str)
    /\ ~call.cached.some => call.probed
    /\ (call.probed /\ call.probe = Return(NoPath)) =>
         call.raised = "ValueError" /\ ~call.after.some
    /\ (call.probed /\ call.probe.raised = "none" /\ call.probe.value.some) =>
         /\ call.raised = "none"
         /\ call.steam_install_path = call.probe.value.path
         /\ call.dry_run => ~call.after.some
         /\ ~call.dry_run => call.after = Some(PathStr(call.probe.value.path))
    /\ Wrote(call) =>
         \A j \in (i + 1)..Len(result) :
           /\ result[j].raised = "none" /\ ~result[j].probed
           /\ result[j].steam_install_path = call.probe.value.path

\* a call wrote the cache file and a later call was made
C23_Witness ==
  \E i \in 1..Len(result) : Wrote(result[i]) /\ i < Len(result)

----------------------------------------------------------------------------
(* NuGetClient (scripts/cli/nuget/client.py)                               *)
(*                                                                         *)
(* Several query_package calls run as asyncio tasks on one client.  A task *)
(* runs without interruption until it waits: for _catalog_lock, for the    *)
(* response to the service-index request, or for the response to the       *)
(* search request.  Each action is one such run.                           *)

\* the number of concurrent query_package calls
NumTasks == 2

Tasks == 1..NumTasks

NoTask == 0

\* asyncio.Lock(): not locked, nobody waiting; holder is the task that
\* acquired the lock and has not released it
Lock == [locked |-> FALSE, waiters |-> <<>>, woken |-> FALSE,
         holder |-> NoTask]

\* Lock.acquire() succeeds at once when the lock is free and nobody waits
CanAcquire(lock) == ~lock.locked /\ lock.waiters = <<>>

Acquired(lock, t) == [lock EXCEPT !.locked = TRUE, !.holder = t]

\* otherwise the task appends its future to the waiters and waits for it
Enqueued(lock, t) == [lock EXCEPT !.waiters = Append(lock.waiters, t)]

\* a woken waiter removes its future and takes the lock
Resumed(lock, t) ==
  [lock EXCEPT !.waiters = Tail(lock.waiters), !.woken = FALSE,
               !.locked = TRUE, !.holder = t]

\* Lock.release(): unlocks and sets the future of the first waiter
Released(lock) ==
  [lock EXCEPT !.locked = FALSE, !.holder = NoTask,
               !.woken = lock.waiters # <<>>]

\* NuGetClient(): _catalog_lock = Lock(), _catalog_query_url = None
NuGetClient == [catalog_lock |-> Lock, catalog_query_url |-> None]

\* a task before its query_package call starts
NewTask ==
  [pc |-> "ready", index_response |-> Unset, search_response |-> Unset,
   request_base |-> Unset, outcome |-> Unset]

\* the resources of a service index: the @type of each and its id, which
\* can be missing or empty
SEARCH_QUERY_SERVICE_NAME == "SearchQueryService"

Resources ==
  {[type |-> SEARCH_QUERY_SERVICE_NAME, id |-> Some(<<"u">>)],
   [type |-> SEARCH_QUERY_SERVICE_NAME, id |-> None],
   [type |-> SEARCH_QUERY_SERVICE_NAME, id |-> Some(<<>>)],
   [type |-> "RegistrationsBaseUrl", id |-> Some(<<"r">>)]}

\* the longest list of resources of an index
MaxResources == 2

\* responses to the index request: not OK, or OK with a list of resources
IndexResponses ==
  {[ok |-> FALSE]}
    \cup {[ok |-> TRUE, resources |-> rs] :
            rs \in {<<>>} \cup SeqsUpTo(Resources, MaxResources)}

\* responses to the search request: not OK, or OK with a JSON document
\* whose "data" member lists the matching packages
SearchResponses ==
  {[ok |-> FALSE]}
    \cup {[ok |-> TRUE, json |-> [dict |-> [data |-> d]]] :
            d \in {<<>>, <<"p">>, <<"p", "q">>}}

\* obj.name: response.json() is a dict, which has keys and no attributes
GetAttr(obj, name) ==
  IF "dict" \in DOMAIN obj THEN Raise("AttributeError") ELSE Return(obj[name])

\* the for loop of _init_catalog_query_url from resource i on: what the
\* first SearchQueryService resource makes of the client, and how the call
\* ends; without such a resource the loop and the call end without a word
RECURSIVE ScanResources(_, _, _)
ScanResources(self, resources, i) ==
  IF i > Len(resources) THEN [raised |-> "none", self |-> self]
  ELSE IF resources[i].type # SEARCH_QUERY_SERVICE_NAME
  THEN ScanResources(self, resources, i + 1)
  ELSE IF ~Truthy(resources[i].id)
  THEN [raised |-> "NuGetError",
        self |-> [self EXCEPT !.catalog_lock = Released(self.catalog_lock)]]
  ELSE [raised |-> "none",
        self |-> [self EXCEPT !.catalog_query_url = resources[i].id,
                              !.catalog_lock = Released(self.catalog_lock)]]

\* _init_catalog_query_url from the response to the index request on
init_catalog_query_url(self, resp) ==
  IF ~resp.ok THEN [raised |-> "ServiceTimeoutError", self |-> self]
  ELSE ScanResources(self, resp.resources, 1)

\* _query_package after _init_catalog_query_url: the request URL is built
\* from _catalog_query_url, which has no with_query when it is None, and
\* the search request is sent
SendSearch(task, self) ==
  IF ~self.catalog_query_url.some
  THEN [task EXCEPT !.request_base = self.catalog_query_url,
                    !.pc = "done", !.outcome = Raise("AttributeError")]
  ELSE [task EXCEPT !.request_base = self.catalog_query_url,
                    !.pc = "search_wait"]

\* the end of query_package: PackageQueryTimeoutError is answered with [],
\* any other exception goes on to the caller, and of a response its data
\* attribute is returned
query_package_end(raised, response) ==
  IF raised = "PackageQueryTimeoutError" THEN Return(<<>>)
  ELSE IF raised # "none" THEN Raise(raised)
  ELSE GetAttr(response, "data")

NuGetInit ==
  /\ client = NuGetClient
  /\ tasks = [t \in Tasks |-> NewTask]
  /\ fs = Unset
  /\ version_str = Unset /\ version = Unset /\ result = Unset /\ pc = Unset

NuGetFrame == UNCHANGED <<version_str, version, result, pc, fs>>

\* query_package starts: with the catalog URL known the search request is
\* sent; otherwise _init_catalog_query_url takes the lock and sends the
\* index request, or waits for the lock
Start(t) ==
  /\ tasks[t].pc = "ready"
  /\ IF Truthy(client.catalog_query_url)
     THEN /\ tasks' = [tasks EXCEPT ![t] = SendSearch(tasks[t], client)]
          /\ UNCHANGED client
     ELSE IF CanAcquire(client.catalog_lock)
     THEN /\ client' = [client EXCEPT
                          !.catalog_lock = Acquired(client.catalog_lock, t)]
          /\ tasks' = [tasks EXCEPT ![t].pc = "index_wait"]
     ELSE /\ client' = [client EXCEPT
                          !.catalog_lock = Enqueued(client.catalog_lock, t)]
          /\ tasks' = [tasks EXCEPT ![t].pc = "lock_wait"]
  /\ NuGetFrame

\* the task woken by release() takes the lock; if the URL was set meanwhile
\* it releases the lock again and sends the search request, otherwise it
\* sends the index request
LockAcquired(t) ==
  /\ tasks[t].pc = "lock_wait"
  /\ client.catalog_lock.woken /\ Head(client.catalog_lock.waiters) = t
  /\ LET lock == Resumed(client.catalog_lock, t) IN
     IF Truthy(client.catalog_query_url)
     THEN /\ client' = [client EXCEPT !.catalog_lock = Released(lock)]
          /\ tasks' = [tasks EXCEPT ![t] = SendSearch(tasks[t], client)]
     ELSE /\ client' = [client EXCEPT !.catalog_lock = lock]
          /\ tasks' = [tasks EXCEPT ![t].pc = "index_wait"]
  /\ NuGetFrame

\* the response to the index request arrives: _init_catalog_query_url ends,
\* and if it returned, _query_package goes on to the search request
IndexResponse(t) ==
  /\ tasks[t].pc = "index_wait"
  /\ \E resp \in IndexResponses :
       LET end == init_catalog_query_url(client, resp)
           task == [tasks[t] EXCEPT !.index_response = resp]
       IN /\ client' = end.self
          /\ tasks' = [tasks EXCEPT ![t] =
               IF end.raised # "none"
               THEN [task EXCEPT !.pc = "done",
                       !.outcome = query_package_end(end.raised, Unset)]
               ELSE SendSearch(task, end.self)]
  /\ NuGetFrame

\* the response to the search request arrives: query_package ends
SearchResponse(t) ==
  /\ tasks[t].pc = "search_wait"
  /\ \E resp \in SearchResponses :
       tasks' = [tasks EXCEPT ![t] =
         [tasks[t] EXCEPT
            !.search_response = resp,
            !.pc = "done",
            !.outcome =
               IF ~resp.ok
               THEN query_package_end("PackageQueryTimeoutError", Unset)
               ELSE query_package_end("none", resp.json)]]
  /\ UNCHANGED client
  /\ NuGetFrame

NuGetNext ==
  \/ \E t \in Tasks : Start(t)
  \/ \E t \in Tasks : LockAcquired(t)
  \/ \E t \in Tasks : IndexResponse(t)
  \/ \E t \in Tasks : SearchResponse(t)

NuGetSpec == NuGetInit /\ [][NuGetNext]_vars

\* the event loop runs every task that can run, and every request is
\* answered
NuGetFairSpec ==
  /\ NuGetSpec
  /\ \A t \in Tasks :
       /\ WF_vars(Start(t))
       /\ WF_vars(LockAcquired(t))
       /\ WF_vars(IndexResponse(t))
       /\ WF_vars(SearchResponse(t))

Done(t) == tasks[t].pc = "done"

\* the query of the task timed out: a non-OK response to its index request
\* or to its search request
TimedOut(t) ==
  \/ tasks[t].index_response # Unset /\ ~tasks[t].index_response.ok
  \/ tasks[t].search_response # Unset /\ ~tasks[t].search_response.ok

\* C24: query_package returns a list in every outcome: the empty list, and
\* no exception, when the index request or the search request got a non-OK
\* response, and otherwise the list of the matching package entries.
C24_QueryReturnsList ==
  \A t \in Tasks :
    Done(t) =>
      /\ ~Raised(tasks[t].outcome)
      /\ TimedOut(t) => tasks[t].outcome = Return(<<>>)
      /\ (~TimedOut(t) /\ tasks[t].search_response # Unset) =>
           tasks[t].outcome = Return(tasks[t].search_response.json.dict.data)

\* the task is outside _init_catalog_query_url: not started, or past it
OutsideInit(t) == tasks[t].pc \in {"ready", "search_wait", "done"}

\* C27: _init_catalog_query_url releases _catalog_lock on every exit path:
\* a task that is not inside the call does not hold the lock.
C27_LockReleasedOnExit ==
  \A t \in Tasks : OutsideInit(t) => client.catalog_lock.holder # t

\* C28: with several concurrent query_package calls on a client without a
\* catalog URL every call eventually completes, and whenever a task builds
\* the search request, _catalog_query_url is set.
C28_EveryCallCompletes ==
  <>(\A t \in Tasks :
       /\ Done(t)
       /\ tasks[t].request_base # Unset => tasks[t].request_base.some)

-----------------------------------------------------------------------------
(* The command-line scripts (scripts/cli/consolidate.py, scripts/cli/      *)
(* deploy.py, scripts/ensure_active.py).  They act on the file system fs;  *)
(* the names of files and directories are strings, as the scripts take     *)
(* them apart, and a path is the sequence of names from the working        *)
(* directory.                                                              *)

\* the result of a step that went through
Ok(files) == [raised |-> "none", fs |-> files]

\* why a path cannot be entered: a missing directory or a file in its place
NoParent(files, path) ==
  IF Exists(files, Parent(path)) THEN "NotADirectoryError"
  ELSE "FileNotFoundError"

\* Path.mkdir(parents=True, exist_ok=True)
RECURSIVE Mkdir(_, _)
Mkdir(files, path) ==
  IF path = <<>> \/ IsDir(files, path) THEN Ok(files)
  ELSE IF IsFile(files, path) THEN [raised |-> "FileExistsError", fs |-> files]
  ELSE LET above == Mkdir(files, Parent(path))
       IN IF above.raised # "none" THEN above
          ELSE Ok(Put(above.fs, path, Dir))

\* Path.replace(target) of a file: the target's directory must exist, and
\* the target must not be a directory
Replace(files, source, target) ==
  IF ~Exists(files, source) THEN [raised |-> "FileNotFoundError", fs |-> files]
  ELSE IF ~HasParent(files, target)
    THEN [raised |-> NoParent(files, target), fs |-> files]
  ELSE IF IsDir(files, target) THEN [raised |-> "IsADirectoryError", fs |-> files]
  ELSE Ok(Put(Remove(files, source), target, files[source]))

\* Path.unlink()
Unlink(files, path) ==
  IF ~Exists(files, path) THEN [raised |-> "FileNotFoundError", fs |-> files]
  ELSE IF IsDir(files, path) THEN [raised |-> "IsADirectoryError", fs |-> files]
  ELSE Ok(Remove(files, path))

\* shutil.copyfile(source, target)
copyfile(files, source, target) ==
  IF ~Exists(files, source) THEN [raised |-> "FileNotFoundError", fs |-> files]
  ELSE IF IsDir(files, source) THEN [raised |-> "IsADirectoryError", fs |-> files]
  ELSE IF ~HasParent(files, target)
    THEN [raised |-> NoParent(files, target), fs |-> files]
  ELSE IF IsDir(files, target) THEN [raised |-> "IsADirectoryError", fs |-> files]
  ELSE Ok(Put(files, target, files[source]))

\* the index of the last "." of a name, 0 when it has none
RECURSIVE LastDot(_, _)
LastDot(name, i) ==
  IF i = 0 THEN 0
  ELSE IF name[i] = "." THEN i
  ELSE LastDot(name, i - 1)

\* PurePath.suffix: from the last dot, unless the dot opens or ends the name
suffix(name) ==
  LET i == LastDot(name, Len(name))
  IN IF 1 < i /\ i < Len(name) THEN SubSeq(name, i, Len(name)) ELSE <<>>

\* PurePath.stem: the name without its suffix
stem(name) == SubSeq(name, 1, Len(name) - Len(suffix(name)))

\* PurePath.with_suffix(new) of a path
with_suffix(path, new) ==
  Parent(path) \o <<stem(path[Len(path)]) \o new>>

\* str.startswith
startswith(s, prefix) ==
  Len(prefix) <= Len(s) /\ SubSeq(s, 1, Len(prefix)) = prefix

\* s.split("."): the segments between the dots
RECURSIVE SplitDots(_, _)
SplitDots(s, segment) ==
  IF s = <<>> THEN <<segment>>
  ELSE IF Head(s) = "." THEN <<segment>> \o SplitDots(Tail(s), <<>>)
  ELSE SplitDots(Tail(s), Append(segment, Head(s)))

\* the elements of a sequence
Range(seq) == {seq[i] : i \in 1..Len(seq)}

\* the sequences that list every element of a set exactly once
Orders(S) ==
  {seq \in [1..Cardinality(S) -> S] : Range(seq) = S}

-----------------------------------------------------------------------------
(* consolidate_assemblies (scripts/cli/consolidate.py)                     *)

MOD_ASSEMBLY_PREFIX == <<"S", "t", "r", "e", "a", "m", "K", "i", "t">>

MOD_COMMON_ASSEMBLY_PREFIX == <<"S", "t", "r", "e", "a", "m", "K", "i", "t", ".", "C", "o", "m", "m", "o", "n">>

ASSEMBLIES == <<"A", "s", "s", "e", "m", "b", "l", "i", "e", "s">>

DLL == <<".", "d", "l", "l">>

PDB == <<".", "p", "d", "b">>

\* the directories the walk does not enter
Pruned(name) ==
  \/ startswith(name, <<".">>)
  \/ startswith(name, <<"_">>)
  \/ name \in {<<"n", "o", "d", "e", "_", "m", "o", "d", "u", "l", "e", "s">>, <<"o", "b", "j">>, <<"b", "i", "n">>, <<"w", "w", "w", "r", "o", "o", "t">>, <<"s", "r", "c">>}

\* every segment of the directory's stem is a number
is_version_directory(name) ==
  LET segments == SplitDots(stem(name), <<>>)
  IN \A i \in 1..Len(segments) : IsDigit(segments[i])

\* the directories whose assemblies the walk registers: reached without
\* passing a pruned directory, named like a version, with an Assemblies
\* directory
VersionDirectories(files) ==
  {path \in DOMAIN files :
     /\ IsDir(files, path)
     /\ \A i \in 1..Len(path) : ~Pruned(path[i])
     /\ is_version_directory(path[Len(path)])
     /\ IsDir(files, Append(path, ASSEMBLIES))}

\* the files of an Assemblies directory that are registered: a .dll that is
\* not an assembly of the mod itself
IsLibrary(name) ==
  ~ \/ suffix(name) # DLL
    \/ /\ startswith(stem(name), MOD_ASSEMBLY_PREFIX)
       /\ ~startswith(stem(name), MOD_COMMON_ASSEMBLY_PREFIX)

\* sha256(content).hexdigest(): equal exactly for equal contents
sha256(content) == <<"sha256", content>>

\* _Assembly(file_path, hash)
Assembly(files, path) ==
  [file_path |-> path, hash |-> sha256(files[path].content)]

\* the names under which the walk registers assemblies
RegisteredNames(files) ==
  {stem(path[Len(path)]) : path \in
     {p \in DOMAIN files :
        /\ Len(p) >= 2
        /\ p[Len(p) - 1] = ASSEMBLIES
        /\ Parent(Parent(p)) \in VersionDirectories(files)
        /\ IsFile(files, p)
        /\ IsLibrary(p[Len(p)])}}

\* assembly_registry[name]: the assemblies of that name in the order in
\* which the walk visits the version directories
Registered(files, directories, name) ==
  LET holding == SelectSeq(directories, LAMBDA d :
                   IsFile(files, d \o <<ASSEMBLIES, name \o DLL>>))
  IN [i \in 1..Len(holding) |->
        Assembly(files, holding[i] \o <<ASSEMBLIES, name \o DLL>>)]

common_assemblies_directory == <<<<"C", "o", "m", "m", "o", "n">>, ASSEMBLIES>>

\* for assembly in assemblies[1:]: remove the copy and its .pdb
RECURSIVE RemoveDuplicates(_, _, _)
RemoveDuplicates(files, assemblies, dry_run) ==
  IF assemblies = <<>> THEN Ok(files)
  ELSE
    LET file_path == Head(assemblies).file_path
        assembly_pdb_path == with_suffix(file_path, PDB)
    IN IF ~Exists(files, file_path) \/ dry_run
       THEN RemoveDuplicates(files, Tail(assemblies), dry_run)
       ELSE
         LET no_pdb == IF Exists(files, assembly_pdb_path)
                       THEN Unlink(files, assembly_pdb_path)
                       ELSE Ok(files)
         IN IF no_pdb.raised # "none" THEN no_pdb
            ELSE LET gone == Unlink(no_pdb.fs, file_path)
                 IN IF gone.raised # "none" THEN gone
                    ELSE RemoveDuplicates(gone.fs, Tail(assemblies), dry_run)

\* the move of the first copy to Common/Assemblies/<name>.dll, with the
\* file name appended to that path once more
MoveTarget(assembly_name, extension) ==
  LET common_assembly_path ==
        Append(common_assemblies_directory, assembly_name \o DLL)
  IN Append(common_assembly_path, assembly_name \o extension)

\* one round of the loop over assembly_registry.items()
ConsolidateName(files, assembly_name, assemblies, dry_run) ==
  IF Len(assemblies) = 1 THEN Ok(files)
  ELSE IF Cardinality({assemblies[i].hash : i \in 1..Len(assemblies)}) > 1
    THEN Ok(files)
  ELSE
    LET common_assembly == assemblies[1]
        common_assembly_pdb_path == with_suffix(common_assembly.file_path, PDB)
        moved == IF ~dry_run
                 THEN Replace(files, common_assembly.file_path,
                              MoveTarget(assembly_name, DLL))
                 ELSE Ok(files)
    IN IF moved.raised # "none" THEN moved
       ELSE
         LET moved_pdb ==
               IF Exists(moved.fs, common_assembly_pdb_path) /\ ~dry_run
               THEN Replace(moved.fs, common_assembly_pdb_path,
                            MoveTarget(assembly_name, PDB))
               ELSE moved
         IN IF moved_pdb.raised # "none" THEN moved_pdb
            ELSE RemoveDuplicates(moved_pdb.fs, Tail(assemblies), dry_run)

\* the loop over the registry, in the order in which the names were
\* registered; an exception ends it
RECURSIVE ConsolidateNames(_, _, _, _)
ConsolidateNames(files, registry, names, dry_run) ==
  IF names = <<>> THEN Ok(files)
  ELSE LET one == ConsolidateName(files, Head(names), registry[Head(names)],
                                  dry_run)
       IN IF one.raised # "none" THEN one
          ELSE ConsolidateNames(one.fs, registry, Tail(names), dry_run)

\* a variant that creates Common/Assemblies in a dry run too
consolidate_assemblies_AlwaysMkdir(files, dry_run, directories, names) ==
  LET registry == [name \in Range(names) |->
                     Registered(files, directories, name)]
      made == IF ~Exists(files, common_assemblies_directory)
              THEN Mkdir(files, common_assemblies_directory)
              ELSE Ok(files)
  IN IF made.raised # "none" THEN [raised |-> "SystemExit", fs |-> made.fs]
     ELSE ConsolidateNames(made.fs, registry, names, dry_run)

\* consolidate_assemblies(dry_run); directories is the order in which the
\* walk visits the version directories, names the order in which it meets
\* the assembly names
consolidate_assemblies(files, dry_run, directories, names) ==
  LET registry == [name \in Range(names) |->
                     Registered(files, directories, name)]
      made == IF ~Exists(files, common_assemblies_directory) /\ ~dry_run
              THEN Mkdir(files, common_assemblies_directory)
              ELSE Ok(files)
  IN IF made.raised # "none" THEN [raised |-> "SystemExit", fs |-> made.fs]
     ELSE ConsolidateNames(made.fs, registry, names, dry_run)

-----------------------------------------------------------------------------
(* deploy_mod (scripts/cli/deploy.py)                                      *)

\* the next step of a function, unless the one before raised
Then(done, Step(_)) == IF done.raised # "none" THEN done ELSE Step(done.fs)

\* an OSError of mkdir is logged and ends the program with exit(1)
MkdirOrExit(files, path) ==
  LET made == Mkdir(files, path)
  IN IF made.raised # "none" THEN [raised |-> "SystemExit", fs |-> made.fs]
     ELSE made

\* the working directory
cwd == <<>>

\* _deploy_root_directory(root_directory, dry_run)
deploy_root_directory(files, root_directory, dry_run) ==
  LET readme == IF ~dry_run
                THEN copyfile(files, Append(cwd, <<"R", "E", "A", "D", "M", "E", ".", "m", "d">>),
                              Append(root_directory, <<"R", "E", "A", "D", "M", "E", ".", "m", "d">>))
                ELSE Ok(files)
      load_folders(f) ==
        IF Exists(f, Append(root_directory, <<"L", "o", "a", "d", "F", "o", "l", "d", "e", "r", "s", ".", "x", "m", "l">>)) /\ ~dry_run
        THEN copyfile(f, Append(cwd, <<"L", "o", "a", "d", "F", "o", "l", "d", "e", "r", "s", ".", "x", "m", "l">>),
                      Append(root_directory, <<"L", "o", "a", "d", "F", "o", "l", "d", "e", "r", "s", ".", "x", "m", "l">>))
        ELSE Ok(f)
      license(f) ==
        IF ~dry_run
        THEN copyfile(f, Append(cwd, <<"L", "I", "C", "E", "N", "S", "E">>),
                      Append(root_directory, <<"L", "I", "C", "E", "N", "S", "E">>))
        ELSE Ok(f)
  IN Then(Then(readme, load_folders), license)

\* _deploy_about_directory(about_directory, dry_run)
deploy_about_directory(files, about_directory, dry_run) ==
  LET made == IF ~dry_run THEN MkdirOrExit(files, about_directory)
              ELSE Ok(files)
      about_file == Append(about_directory, <<"A", "b", "o", "u", "t", ".", "x", "m", "l">>)
      preview_file == Append(about_directory, <<"P", "r", "e", "v", "i", "e", "w", ".", "p", "n", "g">>)
      about(f) ==
        IF ~dry_run
        THEN copyfile(f, cwd \o <<<<"A", "b", "o", "u", "t">>, <<"A", "b", "o", "u", "t", ".", "x", "m", "l">>>>, about_file)
        ELSE Ok(f)
      preview(f) ==
        IF Exists(f, cwd \o <<<<"A", "b", "o", "u", "t">>, <<"P", "r", "e", "v", "i", "e", "w", ".", "p", "n", "g">>>>) /\ ~dry_run
        THEN copyfile(f, cwd \o <<<<"A", "b", "o", "u", "t">>, <<"P", "r", "e", "v", "i", "e", "w", ".", "p", "n", "g">>>>, preview_file)
        ELSE Ok(f)
  IN Then(Then(made, about), preview)

\* deploy_mod(path, dry_run)
deploy_mod(files, path, dry_run) ==
  IF path = cwd THEN Ok(files)
  ELSE
    LET made == IF ~Exists(files, path) /\ ~dry_run
                THEN MkdirOrExit(files, path)
                ELSE Ok(files)
        root(f) == deploy_root_directory(f, path, dry_run)
        about(f) == deploy_about_directory(f, Append(path, <<"A", "b", "o", "u", "t">>), dry_run)
    IN Then(Then(made, root), about)

-----------------------------------------------------------------------------
(* The activation step of scripts/ensure_active.py                         *)

\* the text of a ModsConfig.xml that holds a document: the text of an
\* element is None when the element is empty
Document(version_text, active_mods, known_expansions) ==
  [well_formed |-> TRUE, version |-> version_text,
   activeMods |-> active_mods, knownExpansions |-> known_expansions]

\* the text of a file that was opened for writing and never written
Empty == [well_formed |-> FALSE]

\* ModsConfig(version, active_mods, known_expansions)
ModsConfig(version_text, active_mods, known_expansions) ==
  [version |-> version_text, active_mods |-> active_mods,
   known_expansions |-> known_expansions]

\* load_mods_config(file)
load_mods_config(content) ==
  IF ~content.well_formed THEN Raise("ParseError")
  ELSE Return(ModsConfig(content.version, content.activeMods,
                         content.knownExpansions))

\* ElementTree.write(file, encoding): every encoding but "unicode" makes
\* bytes, and a file opened in text mode takes none
tree_write(mode, root, encoding) ==
  LET data == [type |-> IF encoding = "unicode" THEN "str" ELSE "bytes",
               document |-> root]
      accepted == IF mode = "w" THEN "str" ELSE "bytes"
  IN IF data.type # accepted THEN Raise("TypeError")
     ELSE Return(data.document)

\* dump_mods_config(obj, file), for a file opened with that mode
dump_mods_config(obj, mode) ==
  tree_write(mode,
             Document(obj.version, obj.active_mods, obj.known_expansions),
             "utf-8")

\* for mod_id in parsed.mod_id: append the ids that are not active
RECURSIVE Activate(_, _)
Activate(config, mod_id) ==
  IF mod_id = <<>> THEN config
  ELSE IF \E i \in 1..Len(config.active_mods) :
            config.active_mods[i] = Head(mod_id)
    THEN Activate(config, Tail(mod_id))
  ELSE Activate([config EXCEPT !.active_mods = Append(@, Head(mod_id))],
                Tail(mod_id))

\* the step: read ModsConfig.xml, activate, and write the file unless this
\* is a dry run
ensure_active(files, save_data, mod_id, dry_run) ==
  LET mods_config_path == save_data \o <<<<"C", "o", "n", "f", "i", "g">>, <<"M", "o", "d", "s", "C", "o", "n", "f", "i", "g", ".", "x", "m", "l">>>>
  IN IF ~Exists(files, mods_config_path)
       THEN [raised |-> "FileNotFoundError", fs |-> files, config |-> Unset]
     ELSE IF IsDir(files, mods_config_path)
       THEN [raised |-> "IsADirectoryError", fs |-> files, config |-> Unset]
     ELSE
       LET loaded == load_mods_config(files[mods_config_path].content)
       IN IF loaded.raised # "none"
          THEN [raised |-> loaded.raised, fs |-> files, config |-> Unset]
          ELSE
            LET config == Activate(loaded.value, mod_id)
                opened == Put(files, mods_config_path, File(Empty))
                dumped == dump_mods_config(config, "w")
            IN IF dry_run
               THEN [raised |-> "SystemExit", fs |-> files, config |-> config]
               ELSE IF dumped.raised # "none"
                 THEN [raised |-> dumped.raised, fs |-> opened,
                       config |-> config]
               ELSE [raised |-> "none",
                     fs |-> Put(files, mods_config_path, File(dumped.value)),
                     config |-> config]

-----------------------------------------------------------------------------
(* The scripts as a state machine: one of them is run on a file system,    *)
(* the activation step up to MaxRuns times.                                *)

MaxRuns == 2

\* a directory and what it holds
Holding(directory, entries) ==
  [p \in {directory} \cup {Append(directory, n) : n \in DOMAIN entries} |->
     IF p = directory THEN Dir ELSE entries[p[Len(p)]]]

\* no entry
Nothing == [n \in {} |-> Dir]

\* what a directory may hold: any of the files, and the assembly with any
\* of the contents or not at all
Entries(assembly, contents, others) ==
  {lib @@ rest :
     lib \in {Nothing} \cup {assembly :> File(c) : c \in contents},
     rest \in UNION {[S -> {File("c1")}] : S \in SUBSET others}}

\* a directory with an Assemblies directory in it
WithAssemblies(name, entries) ==
  (<<name>> :> Dir) @@ Holding(<<name, ASSEMBLIES>>, entries)

\* a directory, with one of the Assemblies directories or with none
Directories(name, entries) ==
  {<<name>> :> Dir} \cup {WithAssemblies(name, e) : e \in entries}

ConsolidateFileSystems ==
  {a @@ b @@ c @@ d @@ e :
     a \in Directories(<<"1", ".", "5">>,
             Entries(<<"L", "i", "b", ".", "d", "l", "l">>, {"c1"},
                     {<<"L", "i", "b", ".", "p", "d", "b">>, <<"S", "t", "r", "e", "a", "m", "K", "i", "t", ".", "d", "l", "l">>,
                      <<"S", "t", "r", "e", "a", "m", "K", "i", "t", ".", "C", "o", "m", "m", "o", "n", ".", "d", "l", "l">>})),
     b \in Directories(<<"1", ".", "6">>,
             Entries(<<"L", "i", "b", ".", "d", "l", "l">>, {"c1", "c2"},
                     {<<"L", "i", "b", ".", "p", "d", "b">>, <<"S", "t", "r", "e", "a", "m", "K", "i", "t", ".", "C", "o", "m", "m", "o", "n", ".", "d", "l", "l">>})),
     c \in {Nothing} \cup
           {WithAssemblies(<<"2">>, x) :
              x \in Entries(<<"L", "i", "b", ".", "d", "l", "l">>, {"c1", "c2"}, {})},
     d \in {Nothing,
            WithAssemblies(<<"o", "b", "j">>, <<"L", "i", "b", ".", "d", "l", "l">> :> File("c1")),
            WithAssemblies(<<"S", "o", "u", "r", "c", "e">>, <<"L", "i", "b", ".", "d", "l", "l">> :> File("c1"))},
     e \in {Nothing,
            Holding(<<<<"C", "o", "m", "m", "o", "n">>>>, ASSEMBLIES :> Dir),
            Holding(<<<<"C", "o", "m", "m", "o", "n">>>>, ASSEMBLIES :> Dir)
              @@ Holding(common_assemblies_directory, <<"L", "i", "b", ".", "d", "l", "l">> :> Dir)}}

\* where the mod is deployed to
deploy_path == <<<<".", ".">>, <<"M", "o", "d", "s">>, <<"C", "o", "l", "o", "n", "y", "S", "y", "n", "c">>>>

DeployFileSystems ==
  {(<<<<".", ".">>>> :> Dir) @@ Holding(<<<<"A", "b", "o", "u", "t">>>>, about) @@ root @@ target :
     about \in {(<<"A", "b", "o", "u", "t", ".", "x", "m", "l">> :> File("about")) @@ preview :
                  preview \in {Nothing, <<"P", "r", "e", "v", "i", "e", "w", ".", "p", "n", "g">> :> File("preview")}},
     root \in {(<<<<"L", "I", "C", "E", "N", "S", "E">>>> :> File("license")) @@ readme @@ folders :
                 readme \in {Nothing, <<<<"R", "E", "A", "D", "M", "E", ".", "m", "d">>>> :> File("readme")},
                 folders \in {Nothing,
                              <<<<"L", "o", "a", "d", "F", "o", "l", "d", "e", "r", "s", ".", "x", "m", "l">>>> :> File("folders")}},
     target \in {Nothing,
                 <<<<".", ".">>, <<"M", "o", "d", "s">>>> :> Dir,
                 (<<<<".", ".">>, <<"M", "o", "d", "s">>>> :> Dir) @@ (deploy_path :> File("x")),
                 (<<<<".", ".">>, <<"M", "o", "d", "s">>>> :> Dir) @@ (deploy_path :> Dir),
                 (<<<<".", ".">>, <<"M", "o", "d", "s">>>> :> Dir)
                   @@ Holding(deploy_path,
                              <<"L", "o", "a", "d", "F", "o", "l", "d", "e", "r", "s", ".", "x", "m", "l">> :> File("old"))}}

\* the save data directory of the game
save_data == <<<<".", ".">>, <<"s", "a", "v", "e">>>>

ModIds == {<<>>, <<"a">>, <<"m">>}

\* the texts of the elements of a ModsConfig.xml
ElementTexts == {None, Some(<<"a">>), Some(<<"b">>)}

ModsConfigTexts ==
  {Empty} \cup
  {Document(v, a, k) :
     v \in {None, Some(<<"1", ".", "5">>)},
     a \in UNION {[1..n -> ElementTexts] : n \in 0..2},
     k \in {<<>>, <<Some(<<"x">>)>>}}

EnsureActiveFileSystems ==
  {(<<<<".", ".">>>> :> Dir) @@ (save_data :> Dir) @@ config :
     config \in {Nothing} \cup
       {Holding(Append(save_data, <<"C", "o", "n", "f", "i", "g">>),
                <<"M", "o", "d", "s", "C", "o", "n", "f", "i", "g", ".", "x", "m", "l">> :> File(text)) : text \in ModsConfigTexts}}

\* the mod ids of the command line
Requests == UNION {[1..n -> {Some(id) : id \in ModIds}] : n \in 1..2}

ScriptsInit ==
  /\ version_str = Unset
  /\ version = Unset
  /\ client = Unset
  /\ tasks = Unset
  /\ result = Unset
  /\ \/ pc = "consolidate" /\ fs \in ConsolidateFileSystems
     \/ pc = "deploy" /\ fs \in DeployFileSystems
     \/ pc = "ensure_active" /\ fs \in EnsureActiveFileSystems

\* python -m cli consolidate [--dry-run]
Consolidate ==
  /\ pc = "consolidate"
  /\ \E dry_run \in BOOLEAN,
        directories \in Orders(VersionDirectories(fs)),
        names \in Orders(RegisteredNames(fs)) :
       LET done == consolidate_assemblies(fs, dry_run, directories, names)
       IN /\ fs' = done.fs
          /\ result' = [op |-> "consolidate", dry_run |-> dry_run,
                        raised |-> done.raised, before |-> fs]
  /\ pc' = "done"
  /\ UNCHANGED <<version_str, version, client, tasks>>

\* python -m cli deploy PATH [--dry-run]
Deploy ==
  /\ pc = "deploy"
  /\ \E dry_run \in BOOLEAN, path \in {cwd, deploy_path} :
       LET done == deploy_mod(fs, path, dry_run)
       IN /\ fs' = done.fs
          /\ result' = [op |-> "deploy", dry_run |-> dry_run,
                        raised |-> done.raised, before |-> fs, path |-> path]
  /\ pc' = "done"
  /\ UNCHANGED <<version_str, version, client, tasks>>

\* python ensure_active.py --mod_id ... --save-data ... [--dry-run]; a
\* later run asks for the same mod ids
EnsureActive ==
  /\ pc = "ensure_active"
  /\ \E dry_run \in BOOLEAN,
        mod_id \in IF result = Unset THEN Requests ELSE {result.mod_id} :
       LET done == ensure_active(fs, save_data, mod_id, dry_run)
           run == IF result = Unset THEN 1 ELSE result.run + 1
       IN /\ fs' = done.fs
          /\ result' = [op |-> "ensure_active", dry_run |-> dry_run,
                        raised |-> done.raised, before |-> fs,
                        mod_id |-> mod_id, config |-> done.config,
                        run |-> run, previous |-> result]
          /\ pc' = IF run < MaxRuns THEN "ensure_active" ELSE "done"
  /\ UNCHANGED <<version_str, version, client, tasks>>

ScriptsNext == Consolidate \/ Deploy \/ EnsureActive

ScriptsSpec == ScriptsInit /\ [][ScriptsNext]_vars

\* a script has run
Ran(op) == result # Unset /\ result.op = op

\* the copies of an assembly in the version directories
Copies(files, name) ==
  {d \o <<ASSEMBLIES, name \o DLL>> : d \in
     {v \in VersionDirectories(files) :
        IsFile(files, v \o <<ASSEMBLIES, name \o DLL>>)}}

\* the copies of the assembly are two or more and all alike
Duplicated(files, name) ==
  /\ Cardinality(Copies(files, name)) >= 2
  /\ Cardinality({sha256(files[p].content) : p \in Copies(files, name)}) = 1

\* C25: after consolidate_assemblies(dry_run=False), a library assembly
\* found with identical hashes in two or more version directories is at
\* Common/Assemblies/<name>.dll and in no version directory any more, and
\* the copies of every other library assembly are where and what they were
C25_Consolidated ==
  (Ran("consolidate") /\ ~result.dry_run) =>
    \A name \in RegisteredNames(result.before) :
      IF Duplicated(result.before, name)
      THEN /\ IsFile(fs, Append(common_assemblies_directory, name \o DLL))
           /\ \A p \in Copies(result.before, name) : ~Exists(fs, p)
      ELSE \A p \in Copies(result.before, name) :
             Exists(fs, p) /\ fs[p] = result.before[p]

\* the ModsConfig.xml of the game
mods_config_file == save_data \o <<<<"C", "o", "n", "f", "i", "g">>, <<"M", "o", "d", "s", "C", "o", "n", "f", "i", "g", ".", "x", "m", "l">>>>

\* C26: a dry run of consolidate, of deploy and of the activation step
\* leaves the file system as it was: no directory made, no file moved,
\* deleted, copied or rewritten
C26_DryRunChangesNothing ==
  (result # Unset /\ result.dry_run) => fs = result.before

\* dry runs that had something to do: a duplicated assembly without a
\* Common directory, a deployment into a missing directory, and a mod to
\* activate
C26_Witness ==
  /\ result # Unset
  /\ result.dry_run
  /\ \/ /\ result.op = "consolidate"
        /\ ~Exists(result.before, common_assemblies_directory)
        /\ \E name \in RegisteredNames(result.before) :
             Duplicated(result.before, name)
     \/ /\ result.op = "deploy"
        /\ result.path = deploy_path
        /\ ~Exists(result.before, deploy_path)
     \/ /\ result.op = "ensure_active"
        /\ result.config # Unset
        /\ result.config.active_mods
             # result.before[mods_config_file].content.activeMods

\* same members, in the same order, of the first sequence at the start of
\* the second
IsPrefix(s, t) == Len(s) <= Len(t) /\ SubSeq(t, 1, Len(s)) = s

\* what the activation step is to make of the active mods: the mods that
\* were active, in their order, then the requested ids that were not, each
\* once
Activated(before, after, mod_id) ==
  /\ IsPrefix(before, after)
  /\ Range(mod_id) \subseteq Range(after)
  /\ \A i \in Len(before) + 1..Len(after) :
       /\ after[i] \in Range(mod_id) \ Range(before)
       /\ \A j \in Len(before) + 1..Len(after) : after[i] = after[j] => i = j

\* the run read a ModsConfig and was to write the file
Activating ==
  /\ Ran("ensure_active")
  /\ ~result.dry_run
  /\ IsFile(result.before, mods_config_file)
  /\ result.before[mods_config_file].content.well_formed

\* the loop of the step alone, on the ModsConfig in memory: the requested
\* ids are active, each added at most once after the mods that were, and
\* version and known_expansions are those of the file
ActivationLoop ==
  (Ran("ensure_active") /\ result.config # Unset) =>
    LET old == result.before[mods_config_file].content
    IN /\ Activated(old.activeMods, result.config.active_mods, result.mod_id)
       /\ result.config.version = old.version
       /\ result.config.known_expansions = old.knownExpansions
       /\ Activate(result.config, result.mod_id) = result.config

\* C30: the activation step leaves a ModsConfig.xml whose active mods are
\* those of before, in their order, followed by the requested ids that
\* were not active, each once, with version and known expansions as they
\* were; a second run of the step changes nothing
C30_ActivationStep ==
  Activating =>
    LET old == result.before[mods_config_file].content
        new == fs[mods_config_file].content
    IN /\ result.raised = "none"
       /\ new.well_formed
       /\ Activated(old.activeMods, new.activeMods, result.mod_id)
       /\ new.version = old.version
       /\ new.knownExpansions = old.knownExpansions
       /\ (result.run = 2 /\ ~result.previous.dry_run) => fs = result.before

====
